---------------------------- MODULE Spec2Model ----------------------------
(***************************************************************************)
(* The haptic command pipeline of the Stride firmware: the BLE command     *)
(* decoder (haptic_service.c), the request FIFO, the haptic worker thread  *)
(* (haptic_thread_entry) and the DRV2605L register driver.                 *)
(*                                                                         *)
(* Return codes are modelled by the errno names the C code returns:        *)
(* "OK" is 0, "EINVAL" is -EINVAL, and so on; "I2C_ERR" is the negative    *)
(* value an i2c transfer returned, which the driver passes on unchanged.   *)
(***************************************************************************)
EXTENDS Integers, Sequences, FiniteSets, TLC

(***************************************************************************)
(* Bounds of the model.                                                    *)
(***************************************************************************)
\* Size of the k_malloc heap in request buffers: k_malloc fails when it is full.
HeapCap == 2
\* Number of requests the producers put on the FIFO in one behaviour.
MaxEnq == 3

(***************************************************************************)
(* Program constants.                                                      *)
(***************************************************************************)
HAPTIC_MAX_DATA_SIZE == 32

HAPTIC_CMD_PLAY_EFFECT == 1
HAPTIC_CMD_PLAY_SEQUENCE == 2
HAPTIC_CMD_PLAY_PATTERN == 3
HAPTIC_CMD_STOP == 4

DRV2605L_MAX_WAVEFORM_SEQ == 8

\* drv2605l_auto_calibrate: int timeout = 100
AUTOCAL_TIMEOUT == 100

DRV2605L_REG_STATUS == 0
DRV2605L_REG_MODE == 1
DRV2605L_REG_LIBRARY == 3
DRV2605L_REG_WAVESEQ1 == 4
DRV2605L_REG_WAVESEQ2 == 5
DRV2605L_REG_WAVESEQ8 == 11
DRV2605L_REG_GO == 12
DRV2605L_REG_RATEDV == 22
DRV2605L_REG_CLAMPV == 23
DRV2605L_REG_FEEDBACK == 26
DRV2605L_REG_CONTROL1 == 27
DRV2605L_REG_CONTROL2 == 28
DRV2605L_REG_CONTROL3 == 29

DRV2605L_MODE_INTTRIG == 0
DRV2605L_MODE_AUTOCAL == 7
DRV2605L_MODE_STANDBY == 64

DRV2605L_LIB_ERM == 1
DRV2605L_LIB_LRA == 6

DRV2605L_EFFECT_STRONG_CLICK_100 == 1
DRV2605L_EFFECT_SHARP_CLICK_100 == 4
DRV2605L_EFFECT_SHARP_CLICK_60 == 5
DRV2605L_EFFECT_SOFT_BUMP_100 == 7
DRV2605L_EFFECT_SOFT_BUMP_60 == 8
DRV2605L_EFFECT_DOUBLE_CLICK_100 == 10
DRV2605L_EFFECT_STRONG_BUZZ_100 == 14
DRV2605L_EFFECT_PULSING_STRONG_1 == 52
DRV2605L_EFFECT_TRANSITION_RAMP_DOWN_LONG_SMOOTH_1 == 71
DRV2605L_EFFECT_TRANSITION_RAMP_UP_LONG_SMOOTH_1 == 83
DRV2605L_EFFECT_TRANSITION_RAMP_UP_SHORT_SMOOTH_1 == 87

\* The null pointer: a value no byte buffer is equal to.
NULL == <<-1>>

Min(a, b) == IF a < b THEN a ELSE b

(***************************************************************************)
(* The pattern table, indexed by haptic_predefined_pattern_t (0..11); the  *)
(* C array index p is position p + 1 of the sequence.                      *)
(***************************************************************************)
predefined_patterns ==
  << <<DRV2605L_EFFECT_SHARP_CLICK_100>>,
     <<DRV2605L_EFFECT_STRONG_BUZZ_100, DRV2605L_EFFECT_STRONG_BUZZ_100>>,
     <<DRV2605L_EFFECT_TRANSITION_RAMP_UP_SHORT_SMOOTH_1,
       DRV2605L_EFFECT_STRONG_CLICK_100>>,
     <<DRV2605L_EFFECT_STRONG_CLICK_100, DRV2605L_EFFECT_STRONG_CLICK_100,
       DRV2605L_EFFECT_STRONG_CLICK_100>>,
     <<DRV2605L_EFFECT_SHARP_CLICK_60>>,
     <<DRV2605L_EFFECT_SOFT_BUMP_100, DRV2605L_EFFECT_STRONG_CLICK_100>>,
     <<DRV2605L_EFFECT_DOUBLE_CLICK_100>>,
     <<DRV2605L_EFFECT_SOFT_BUMP_100, DRV2605L_EFFECT_SOFT_BUMP_60>>,
     <<DRV2605L_EFFECT_TRANSITION_RAMP_UP_LONG_SMOOTH_1>>,
     <<DRV2605L_EFFECT_TRANSITION_RAMP_DOWN_LONG_SMOOTH_1>>,
     <<DRV2605L_EFFECT_PULSING_STRONG_1>>,
     <<DRV2605L_EFFECT_STRONG_BUZZ_100>> >>

(***************************************************************************)
(* haptic_service.c as functions.  Each returns what the call returns and  *)
(* what it hands to k_fifo_put: [ret, put], put being <<>> or one request  *)
(* [type, data, len].  malloc_ok is whether k_malloc finds memory.         *)
(*                                                                         *)
(* data holds the len bytes memcpy wrote; the rest of the C array is never *)
(* read by the consumer.                                                   *)
(***************************************************************************)
\* queue_haptic_data putting the request on the queue before it finds that
\* the allocation failed (a faulty variant that C10 rules out).
queue_haptic_data_put_anyway(type, data, len, malloc_ok) ==
  IF len > HAPTIC_MAX_DATA_SIZE
    THEN [ret |-> "EINVAL", put |-> <<>>]
  ELSE [ret |-> IF malloc_ok THEN "OK" ELSE "ENOMEM",
        put |-> << [type |-> type,
                    data |-> IF data # NULL /\ len > 0
                               THEN SubSeq(data, 1, len) ELSE <<>>,
                    len |-> len] >>]

\* queue_haptic_data reporting success when the allocation failed (a faulty
\* variant that C17 rules out).
queue_haptic_data_silent_drop(type, data, len, malloc_ok) ==
  IF len > HAPTIC_MAX_DATA_SIZE
    THEN [ret |-> "EINVAL", put |-> <<>>]
  ELSE IF ~malloc_ok
    THEN [ret |-> "OK", put |-> <<>>]
  ELSE [ret |-> "OK",
        put |-> << [type |-> type,
                    data |-> IF data # NULL /\ len > 0
                               THEN SubSeq(data, 1, len) ELSE <<>>,
                    len |-> len] >>]

queue_haptic_data(type, data, len, malloc_ok) ==
  IF len > HAPTIC_MAX_DATA_SIZE
    THEN [ret |-> "EINVAL", put |-> <<>>]
  ELSE IF ~malloc_ok
    THEN [ret |-> "ENOMEM", put |-> <<>>]
  ELSE [ret |-> "OK",
        put |-> << [type |-> type,
                    data |-> IF data # NULL /\ len > 0
                               THEN SubSeq(data, 1, len) ELSE <<>>,
                    len |-> len] >>]

\* haptic_play_effect with the upper limit off by one (a faulty variant that C6 rules out).
haptic_play_effect_upto124(effect, malloc_ok) ==
  IF effect < 1 \/ effect > 124
    THEN [ret |-> "EINVAL", put |-> <<>>]
    ELSE queue_haptic_data("SINGLE_EFFECT", <<effect>>, 1, malloc_ok)

haptic_play_effect(effect, malloc_ok) ==
  IF effect < 1 \/ effect > 123
    THEN [ret |-> "EINVAL", put |-> <<>>]
    ELSE queue_haptic_data("SINGLE_EFFECT", <<effect>>, 1, malloc_ok)

\* haptic_play_pattern rejecting the last table entry (a faulty variant that C7 rules out).
haptic_play_pattern_short(pattern, malloc_ok) ==
  IF pattern >= Len(predefined_patterns) - 1
    THEN [ret |-> "EINVAL", put |-> <<>>]
    ELSE queue_haptic_data("SEQUENCE", predefined_patterns[pattern + 1],
                           Len(predefined_patterns[pattern + 1]), malloc_ok)

haptic_play_pattern(pattern, malloc_ok) ==
  IF pattern >= Len(predefined_patterns)
    THEN [ret |-> "EINVAL", put |-> <<>>]
    ELSE queue_haptic_data("SEQUENCE", predefined_patterns[pattern + 1],
                           Len(predefined_patterns[pattern + 1]), malloc_ok)

\* haptic_play_sequence whose validation loop stops one id early (a faulty
\* variant that C5 rules out).
haptic_play_sequence_skiplast(effects, count, malloc_ok) ==
  IF effects = NULL \/ count = 0
    THEN [ret |-> "EINVAL", put |-> <<>>]
  ELSE LET n == IF count > HAPTIC_MAX_DATA_SIZE
                  THEN HAPTIC_MAX_DATA_SIZE ELSE count
       IN  IF \E i \in 1..(n - 1) : effects[i] < 1 \/ effects[i] > 123
             THEN [ret |-> "EINVAL", put |-> <<>>]
             ELSE queue_haptic_data("SEQUENCE", effects, n, malloc_ok)

\* haptic_play_sequence without the test for an empty sequence (a faulty
\* variant that C37 rules out).
haptic_play_sequence_allows_empty(effects, count, malloc_ok) ==
  IF effects = NULL
    THEN [ret |-> "EINVAL", put |-> <<>>]
  ELSE LET n == IF count > HAPTIC_MAX_DATA_SIZE
                  THEN HAPTIC_MAX_DATA_SIZE ELSE count
       IN  IF \E i \in 1..n : effects[i] < 1 \/ effects[i] > 123
             THEN [ret |-> "EINVAL", put |-> <<>>]
             ELSE queue_haptic_data("SEQUENCE", effects, n, malloc_ok)

\* haptic_play_sequence that keeps the last 32 effects of a longer sequence
\* (a faulty variant that C31 rules out).
haptic_play_sequence_keeps_tail(effects, count, malloc_ok) ==
  IF effects = NULL \/ count = 0
    THEN [ret |-> "EINVAL", put |-> <<>>]
  ELSE LET n == IF count > HAPTIC_MAX_DATA_SIZE
                  THEN HAPTIC_MAX_DATA_SIZE ELSE count
       IN  IF \E i \in 1..n : effects[i] < 1 \/ effects[i] > 123
             THEN [ret |-> "EINVAL", put |-> <<>>]
             ELSE queue_haptic_data("SEQUENCE",
                                    SubSeq(effects, count - n + 1, count), n,
                                    malloc_ok)

\* effects is NULL or the array the pointer refers to (at least count long).
haptic_play_sequence(effects, count, malloc_ok) ==
  IF effects = NULL \/ count = 0
    THEN [ret |-> "EINVAL", put |-> <<>>]
  ELSE LET n == IF count > HAPTIC_MAX_DATA_SIZE
                  THEN HAPTIC_MAX_DATA_SIZE ELSE count
       IN  IF \E i \in 1..n : effects[i] < 1 \/ effects[i] > 123
             THEN [ret |-> "EINVAL", put |-> <<>>]
             ELSE queue_haptic_data("SEQUENCE", effects, n, malloc_ok)

\* haptic_stop queueing the wrong request type (a faulty variant that C8 rules out).
haptic_stop_wrongtype(malloc_ok) == queue_haptic_data("SEQUENCE", NULL, 0, malloc_ok)

haptic_stop(malloc_ok) == queue_haptic_data("STOP", NULL, 0, malloc_ok)

\* haptic_process_ble_data answering an unknown command like a malformed one
\* (a faulty variant that C9 rules out).
haptic_process_ble_data_einval(data, len, malloc_ok) ==
  IF data = NULL \/ len < 1
    THEN [ret |-> "EINVAL", put |-> <<>>]
  ELSE LET cmd == data[1] IN
    CASE cmd = HAPTIC_CMD_PLAY_EFFECT ->
           IF len < 2 THEN [ret |-> "EINVAL", put |-> <<>>]
           ELSE haptic_play_effect(data[2], malloc_ok)
      [] cmd = HAPTIC_CMD_PLAY_SEQUENCE ->
           IF len < 2 THEN [ret |-> "EINVAL", put |-> <<>>]
           ELSE LET count == data[2] IN
                IF len < 2 + count THEN [ret |-> "EINVAL", put |-> <<>>]
                ELSE haptic_play_sequence(SubSeq(data, 3, len), count, malloc_ok)
      [] cmd = HAPTIC_CMD_PLAY_PATTERN ->
           IF len < 2 THEN [ret |-> "EINVAL", put |-> <<>>]
           ELSE haptic_play_pattern(data[2], malloc_ok)
      [] cmd = HAPTIC_CMD_STOP -> haptic_stop(malloc_ok)
      [] OTHER -> [ret |-> "EINVAL", put |-> <<>>]

\* data is NULL or the received bytes; len is the length passed with it.
haptic_process_ble_data(data, len, malloc_ok) ==
  IF data = NULL \/ len < 1
    THEN [ret |-> "EINVAL", put |-> <<>>]
  ELSE LET cmd == data[1] IN
    CASE cmd = HAPTIC_CMD_PLAY_EFFECT ->
           IF len < 2 THEN [ret |-> "EINVAL", put |-> <<>>]
           ELSE haptic_play_effect(data[2], malloc_ok)
      [] cmd = HAPTIC_CMD_PLAY_SEQUENCE ->
           IF len < 2 THEN [ret |-> "EINVAL", put |-> <<>>]
           ELSE LET count == data[2] IN
                IF len < 2 + count THEN [ret |-> "EINVAL", put |-> <<>>]
                ELSE haptic_play_sequence(SubSeq(data, 3, len), count, malloc_ok)
      [] cmd = HAPTIC_CMD_PLAY_PATTERN ->
           IF len < 2 THEN [ret |-> "EINVAL", put |-> <<>>]
           ELSE haptic_play_pattern(data[2], malloc_ok)
      [] cmd = HAPTIC_CMD_STOP -> haptic_stop(malloc_ok)
      [] OTHER -> [ret |-> "ENOTSUP", put |-> <<>>]


(***************************************************************************)
(* State.                                                                  *)
(***************************************************************************)
VARIABLES
  fifo,         \* fifo_haptic_data: the queued requests, head first
  allocated,    \* number of request buffers k_malloc'ed and not yet k_free'd
  nextId,       \* history: number of requests put on the FIFO so far, plus 1
  enqLog,       \* history: the requests in the order k_fifo_put received them
  call,         \* the last haptic_service.c producer call: what, with what, result
  sem,          \* haptic_init_ok, a semaphore with limit 1
  mainPc,       \* main(): "boot", "in_init" (inside haptic_service_init), "running"
  workerPc,     \* haptic_thread_entry: "wait_init", "get", "dispatch", "sleep"
  held,         \* the request the worker holds between dequeue and k_free (<<>>: none)
  dispatched,   \* history: the requests the worker has run through its switch
  initialized,  \* drv2605l.c: static bool initialized
  motor_type,   \* drv2605l.c: static drv2605l_motor_type_t motor_type
  regs,         \* the registers of the DRV2605L device
  drv,          \* the last driver call: what, with what, result, bus transactions
  ndrv,         \* history: number of driver calls made by the driver specification
  input         \* the buffer handed to the decoder in the decoder specification

vars == <<fifo, allocated, nextId, enqLog, call, sem, mainPc, workerPc, held,
          dispatched, initialized, motor_type, regs, drv, ndrv, input>>

svcVars == <<fifo, allocated, nextId, enqLog, call>>
drvVars == <<initialized, motor_type, regs, drv>>
thrVars == <<sem, mainPc, workerPc, held, dispatched>>

\* The registers the driver reads or writes.
Regs == {DRV2605L_REG_STATUS, DRV2605L_REG_MODE, DRV2605L_REG_LIBRARY,
         DRV2605L_REG_GO, DRV2605L_REG_RATEDV, DRV2605L_REG_CLAMPV,
         DRV2605L_REG_FEEDBACK, DRV2605L_REG_CONTROL1, DRV2605L_REG_CONTROL2,
         DRV2605L_REG_CONTROL3}
          \cup (DRV2605L_REG_WAVESEQ1 .. DRV2605L_REG_WAVESEQ8)

(***************************************************************************)
(* The bus.  A driver function is a list of register transactions, each    *)
(* followed by "if (ret < 0) return ret".  fault is the number of the      *)
(* transaction of the call that the bus fails (0, or one past the end:     *)
(* none).  A failed write leaves the register as it was.                   *)
(***************************************************************************)
W(reg, val) == [op |-> "w", reg |-> reg, val |-> val]
R(reg, val) == [op |-> "r", reg |-> reg, val |-> val]

\* The registers after the transactions txs: each register holds the value
\* of the last write to it.
ApplyWrites(r, txs) ==
  [a \in DOMAIN r |->
     LET ws == {i \in 1..Len(txs) : txs[i].op = "w" /\ txs[i].reg = a} IN
     IF ws = {} THEN r[a]
     ELSE txs[CHOOSE i \in ws : \A j \in ws : j <= i].val]

\* drv2605l_write_reg / drv2605l_read_reg run one after the other over txs;
\* endRet is what the function returns when no transaction fails.
BusRun(txs, fault, endRet) ==
  LET n == Len(txs)
      failed == fault >= 1 /\ fault <= n
      done == IF failed THEN fault - 1 ELSE n
  IN  [ret |-> IF failed THEN "I2C_ERR" ELSE endRet,
       bus |-> [i \in 1..(IF failed THEN fault ELSE n) |->
                 [op |-> txs[i].op, reg |-> txs[i].reg, val |-> txs[i].val,
                  ok |-> i <= done]],
       regs |-> ApplyWrites(regs, SubSeq(txs, 1, done))]

NoBus(ret) == [ret |-> ret, bus |-> <<>>, regs |-> regs]

(***************************************************************************)
(* drv2605l.c as functions of the driver state and the device registers.   *)
(* Each returns [ret, bus, regs]: the return value, the bus transactions   *)
(* performed, and the device registers afterwards.                         *)
(***************************************************************************)
\* The transactions of an init that writes the control registers for ERM
\* only (a faulty variant that C27 rules out).
InitTxs_control_erm_only(type, status) ==
  << R(DRV2605L_REG_STATUS, status),
     W(DRV2605L_REG_MODE, DRV2605L_MODE_INTTRIG),
     W(DRV2605L_REG_LIBRARY,
       IF type = "LRA" THEN DRV2605L_LIB_LRA ELSE DRV2605L_LIB_ERM),
     W(DRV2605L_REG_FEEDBACK, IF type = "LRA" THEN 128 ELSE 0) >>
  \o (IF type = "ERM"
        THEN << W(DRV2605L_REG_RATEDV, 144), W(DRV2605L_REG_CLAMPV, 255),
                W(DRV2605L_REG_CONTROL1, 147),
                W(DRV2605L_REG_CONTROL2, 245),
                W(DRV2605L_REG_CONTROL3, 160) >>
        ELSE <<>>)

\* The transactions of drv2605l_init after the bus-ready check; status is
\* the value the device returns for its status register.
InitTxs(type, status) ==
  << R(DRV2605L_REG_STATUS, status),
     W(DRV2605L_REG_MODE, DRV2605L_MODE_INTTRIG),
     W(DRV2605L_REG_LIBRARY,
       IF type = "LRA" THEN DRV2605L_LIB_LRA ELSE DRV2605L_LIB_ERM),
     W(DRV2605L_REG_FEEDBACK, IF type = "LRA" THEN 128 ELSE 0) >>
  \o (IF type = "ERM"
        THEN << W(DRV2605L_REG_RATEDV, 144), W(DRV2605L_REG_CLAMPV, 255) >>
        ELSE <<>>)
  \o << W(DRV2605L_REG_CONTROL1, 147),
        W(DRV2605L_REG_CONTROL2, 245),
        W(DRV2605L_REG_CONTROL3, 160) >>

\* drv2605l_init that clears initialized when it fails (a faulty variant that
\* C38 rules out).
drv2605l_init_clears_on_failure(type, bus_ready, fault) ==
  IF ~bus_ready
    THEN [ret |-> "ENODEV", bus |-> <<>>, regs |-> regs,
          initialized |-> FALSE, motor_type |-> motor_type]
    ELSE LET r == BusRun(InitTxs(type, regs[DRV2605L_REG_STATUS]), fault, "OK") IN
         [ret |-> r.ret, bus |-> r.bus, regs |-> r.regs,
          initialized |-> (r.ret = "OK"),
          motor_type |-> type]

\* drv2605l_init that sets initialized as soon as the probe has succeeded (a
\* faulty variant that C26 rules out).
drv2605l_init_early_flag(type, bus_ready, fault) ==
  IF ~bus_ready
    THEN [ret |-> "ENODEV", bus |-> <<>>, regs |-> regs,
          initialized |-> initialized, motor_type |-> motor_type]
    ELSE LET r == BusRun(InitTxs(type, regs[DRV2605L_REG_STATUS]), fault, "OK") IN
         [ret |-> r.ret, bus |-> r.bus, regs |-> r.regs,
          initialized |-> IF r.bus[1].ok THEN TRUE ELSE initialized,
          motor_type |-> type]

\* bus_ready is device_is_ready(drv2605l_i2c.bus).  The result also carries
\* the driver state after the call.
drv2605l_init(type, bus_ready, fault) ==
  IF ~bus_ready
    THEN [ret |-> "ENODEV", bus |-> <<>>, regs |-> regs,
          initialized |-> initialized, motor_type |-> motor_type]
    ELSE LET r == BusRun(InitTxs(type, regs[DRV2605L_REG_STATUS]), fault, "OK") IN
         [ret |-> r.ret, bus |-> r.bus, regs |-> r.regs,
          initialized |-> IF r.ret = "OK" THEN TRUE ELSE initialized,
          motor_type |-> type]

\* drv2605l_play_effect with the upper limit off by one (a faulty variant that C3 rules out).
drv2605l_play_effect_upto124(effect, fault) ==
  IF ~initialized THEN NoBus("ENODEV")
  ELSE IF effect < 1 \/ effect > 124 THEN NoBus("EINVAL")
  ELSE BusRun(<< W(DRV2605L_REG_WAVESEQ1, effect),
                 W(DRV2605L_REG_WAVESEQ2, 0),
                 W(DRV2605L_REG_GO, 1) >>, fault, "OK")

\* drv2605l_play_effect that triggers go before it has written the slots (a
\* faulty variant that C20 rules out).
drv2605l_play_effect_go_first(effect, fault) ==
  IF ~initialized THEN NoBus("ENODEV")
  ELSE IF effect < 1 \/ effect > 123 THEN NoBus("EINVAL")
  ELSE BusRun(<< W(DRV2605L_REG_GO, 1),
                 W(DRV2605L_REG_WAVESEQ1, effect),
                 W(DRV2605L_REG_WAVESEQ2, 0) >>, fault, "OK")

\* drv2605l_play_effect that does not terminate the sequence after slot 1 (a
\* faulty variant that C36 rules out).
drv2605l_play_effect_no_terminator(effect, fault) ==
  IF ~initialized THEN NoBus("ENODEV")
  ELSE IF effect < 1 \/ effect > 123 THEN NoBus("EINVAL")
  ELSE BusRun(<< W(DRV2605L_REG_WAVESEQ1, effect),
                 W(DRV2605L_REG_GO, 1) >>, fault, "OK")

drv2605l_play_effect(effect, fault) ==
  IF ~initialized THEN NoBus("ENODEV")
  ELSE IF effect < 1 \/ effect > 123 THEN NoBus("EINVAL")
  ELSE BusRun(<< W(DRV2605L_REG_WAVESEQ1, effect),
                 W(DRV2605L_REG_WAVESEQ2, 0),
                 W(DRV2605L_REG_GO, 1) >>, fault, "OK")

\* drv2605l_play_sequence that writes the terminator after eight effects as
\* well, at the address after the last slot (a faulty variant that C40 rules
\* out).
drv2605l_play_sequence_term_always(effects, count, fault) ==
  IF ~initialized THEN NoBus("ENODEV")
  ELSE IF effects = NULL \/ count = 0 THEN NoBus("EINVAL")
  ELSE LET cnt == IF count > DRV2605L_MAX_WAVEFORM_SEQ
                    THEN DRV2605L_MAX_WAVEFORM_SEQ ELSE count
           bad == {i \in 1..cnt : effects[i] < 1 \/ effects[i] > 123}
           firstBad == IF bad = {} THEN 0
                       ELSE CHOOSE i \in bad : \A j \in bad : i <= j
           nslots == IF firstBad = 0 THEN cnt ELSE firstBad - 1
           slots == [i \in 1..nslots |->
                      W(DRV2605L_REG_WAVESEQ1 + (i - 1), effects[i])]
       IN  IF firstBad # 0
             THEN BusRun(slots, fault, "EINVAL")
             ELSE BusRun(slots
                         \o << W(DRV2605L_REG_WAVESEQ1 + cnt, 0) >>
                         \o << W(DRV2605L_REG_GO, 1) >>, fault, "OK")

\* drv2605l_play_sequence that triggers playback although a slot write
\* failed (a faulty variant that C35 rules out).
drv2605l_play_sequence_go_anyway(effects, count, fault) ==
  IF ~initialized THEN NoBus("ENODEV")
  ELSE IF effects = NULL \/ count = 0 THEN NoBus("EINVAL")
  ELSE LET cnt == IF count > DRV2605L_MAX_WAVEFORM_SEQ
                    THEN DRV2605L_MAX_WAVEFORM_SEQ ELSE count
           bad == {i \in 1..cnt : effects[i] < 1 \/ effects[i] > 123}
           firstBad == IF bad = {} THEN 0
                       ELSE CHOOSE i \in bad : \A j \in bad : i <= j
           nslots == IF firstBad = 0 THEN cnt ELSE firstBad - 1
           slots == [i \in 1..nslots |->
                      W(DRV2605L_REG_WAVESEQ1 + (i - 1), effects[i])]
           all == slots
                    \o (IF cnt < DRV2605L_MAX_WAVEFORM_SEQ
                          THEN << W(DRV2605L_REG_WAVESEQ1 + cnt, 0) >>
                          ELSE <<>>)
                    \o << W(DRV2605L_REG_GO, 1) >>
           r == BusRun(all, fault, "OK")
       IN  IF firstBad # 0
             THEN BusRun(slots, fault, "EINVAL")
           ELSE IF r.ret = "OK" \/ fault = Len(all)
             THEN r
           ELSE [ret |-> r.ret,
                 bus |-> r.bus \o << [op |-> "w", reg |-> DRV2605L_REG_GO,
                                      val |-> 1, ok |-> TRUE] >>,
                 regs |-> [r.regs EXCEPT ![DRV2605L_REG_GO] = 1]]

\* drv2605l_play_sequence without the clamp of count to the eight slots (a
\* faulty variant that C12 rules out).
drv2605l_play_sequence_notrunc(effects, count, fault) ==
  IF ~initialized THEN NoBus("ENODEV")
  ELSE IF effects = NULL \/ count = 0 THEN NoBus("EINVAL")
  ELSE LET cnt == count
           bad == {i \in 1..cnt : effects[i] < 1 \/ effects[i] > 123}
           firstBad == IF bad = {} THEN 0
                       ELSE CHOOSE i \in bad : \A j \in bad : i <= j
           nslots == IF firstBad = 0 THEN cnt ELSE firstBad - 1
           slots == [i \in 1..nslots |->
                      W(DRV2605L_REG_WAVESEQ1 + (i - 1), effects[i])]
       IN  IF firstBad # 0
             THEN BusRun(slots, fault, "EINVAL")
             ELSE BusRun(slots
                         \o (IF cnt < DRV2605L_MAX_WAVEFORM_SEQ
                               THEN << W(DRV2605L_REG_WAVESEQ1 + cnt, 0) >>
                               ELSE <<>>)
                         \o << W(DRV2605L_REG_GO, 1) >>, fault, "OK")

\* drv2605l_play_sequence that writes no terminator after the last slot (a
\* faulty variant that C13 rules out).
drv2605l_play_sequence_noterm(effects, count, fault) ==
  IF ~initialized THEN NoBus("ENODEV")
  ELSE IF effects = NULL \/ count = 0 THEN NoBus("EINVAL")
  ELSE LET cnt == IF count > DRV2605L_MAX_WAVEFORM_SEQ
                    THEN DRV2605L_MAX_WAVEFORM_SEQ ELSE count
           bad == {i \in 1..cnt : effects[i] < 1 \/ effects[i] > 123}
           firstBad == IF bad = {} THEN 0
                       ELSE CHOOSE i \in bad : \A j \in bad : i <= j
           nslots == IF firstBad = 0 THEN cnt ELSE firstBad - 1
           slots == [i \in 1..nslots |->
                      W(DRV2605L_REG_WAVESEQ1 + (i - 1), effects[i])]
       IN  IF firstBad # 0
             THEN BusRun(slots, fault, "EINVAL")
             ELSE BusRun(slots \o << W(DRV2605L_REG_GO, 1) >>, fault, "OK")

\* effects is NULL or the array the pointer refers to (at least count long).
drv2605l_play_sequence(effects, count, fault) ==
  IF ~initialized THEN NoBus("ENODEV")
  ELSE IF effects = NULL \/ count = 0 THEN NoBus("EINVAL")
  ELSE LET cnt == IF count > DRV2605L_MAX_WAVEFORM_SEQ
                    THEN DRV2605L_MAX_WAVEFORM_SEQ ELSE count
           bad == {i \in 1..cnt : effects[i] < 1 \/ effects[i] > 123}
           \* the loop stops at the first invalid id, after the writes before it
           firstBad == IF bad = {} THEN 0
                       ELSE CHOOSE i \in bad : \A j \in bad : i <= j
           nslots == IF firstBad = 0 THEN cnt ELSE firstBad - 1
           slots == [i \in 1..nslots |->
                      W(DRV2605L_REG_WAVESEQ1 + (i - 1), effects[i])]
       IN  IF firstBad # 0
             THEN BusRun(slots, fault, "EINVAL")
             ELSE BusRun(slots
                         \o (IF cnt < DRV2605L_MAX_WAVEFORM_SEQ
                               THEN << W(DRV2605L_REG_WAVESEQ1 + cnt, 0) >>
                               ELSE <<>>)
                         \o << W(DRV2605L_REG_GO, 1) >>, fault, "OK")

drv2605l_stop(fault) ==
  IF ~initialized THEN NoBus("ENODEV")
  ELSE BusRun(<< W(DRV2605L_REG_GO, 0) >>, fault, "OK")

\* drv2605l_standby without the initialized check (a faulty variant that C4 rules out).
drv2605l_standby_unchecked(fault) ==
  BusRun(<< W(DRV2605L_REG_MODE, DRV2605L_MODE_STANDBY) >>, fault, "OK")

drv2605l_standby(fault) ==
  IF ~initialized THEN NoBus("ENODEV")
  ELSE BusRun(<< W(DRV2605L_REG_MODE, DRV2605L_MODE_STANDBY) >>, fault, "OK")

drv2605l_wakeup(fault) ==
  IF ~initialized THEN NoBus("ENODEV")
  ELSE BusRun(<< W(DRV2605L_REG_MODE, DRV2605L_MODE_INTTRIG) >>, fault, "OK")

\* drv2605l_is_playing with the test of the go bit inverted (a faulty variant
\* that C21 rules out).
drv2605l_is_playing_inverted(fault) ==
  IF ~initialized THEN NoBus("false")
  ELSE LET go_bit == regs[DRV2605L_REG_GO]
           r == BusRun(<< R(DRV2605L_REG_GO, go_bit) >>,
                       IF fault = 1 THEN 1 ELSE 0,
                       IF go_bit % 2 # 0 THEN "false" ELSE "true")
       IN  [r EXCEPT !.ret = IF r.ret = "I2C_ERR" THEN "false" ELSE r.ret]

\* drv2605l_is_playing that reports playing when the read of the go register
\* fails (a faulty variant that C22 rules out).
drv2605l_is_playing_true_on_error(fault) ==
  IF ~initialized THEN NoBus("false")
  ELSE LET go_bit == regs[DRV2605L_REG_GO]
           r == BusRun(<< R(DRV2605L_REG_GO, go_bit) >>,
                       IF fault = 1 THEN 1 ELSE 0,
                       IF go_bit % 2 # 0 THEN "true" ELSE "false")
       IN  [r EXCEPT !.ret = IF r.ret = "I2C_ERR" THEN "true" ELSE r.ret]

\* The bool result is "true" or "false".
drv2605l_is_playing(fault) ==
  IF ~initialized THEN NoBus("false")
  ELSE LET go_bit == regs[DRV2605L_REG_GO]
           r == BusRun(<< R(DRV2605L_REG_GO, go_bit) >>,
                       IF fault = 1 THEN 1 ELSE 0,
                       IF go_bit % 2 # 0 THEN "true" ELSE "false")
       \* if (ret < 0) return false
       IN  [r EXCEPT !.ret = IF r.ret = "I2C_ERR" THEN "false" ELSE r.ret]

\* drv2605l_auto_calibrate that writes the internal-trigger mode back before
\* it returns an error (a faulty variant that C39 rules out).
drv2605l_auto_calibrate_restores_mode(clearAt, status, fault) ==
  IF ~initialized THEN NoBus("ENODEV")
  ELSE IF motor_type # "LRA" THEN NoBus("ENOTSUP")
  ELSE LET cleared == clearAt >= 1 /\ clearAt <= AUTOCAL_TIMEOUT
           polls == IF cleared THEN clearAt ELSE AUTOCAL_TIMEOUT
           timeout == IF cleared THEN AUTOCAL_TIMEOUT - clearAt ELSE -1
           head == << W(DRV2605L_REG_MODE, DRV2605L_MODE_AUTOCAL),
                      W(DRV2605L_REG_GO, 1) >>
                   \o [k \in 1..polls |->
                        R(DRV2605L_REG_GO, IF k = clearAt THEN 0 ELSE 1)]
           r == IF timeout <= 0
                  THEN BusRun(head, fault, "ETIMEDOUT")
                ELSE IF (status \div 8) % 2 = 1
                  THEN BusRun(head \o << R(DRV2605L_REG_STATUS, status) >>,
                              fault, "EIO")
                ELSE BusRun(head \o << R(DRV2605L_REG_STATUS, status),
                                       W(DRV2605L_REG_MODE, DRV2605L_MODE_INTTRIG) >>,
                            fault, "OK")
           seen == cleared /\ Len(r.bus) >= 2 + clearAt /\ r.bus[2 + clearAt].ok
           res == [r EXCEPT !.regs = IF seen
                                       THEN [r.regs EXCEPT ![DRV2605L_REG_GO] = 0,
                                                           ![DRV2605L_REG_STATUS] = status]
                                       ELSE r.regs]
       IN  IF res.ret = "OK" \/ ~res.bus[1].ok
             THEN res
             ELSE [ret |-> res.ret,
                   bus |-> res.bus \o << [op |-> "w", reg |-> DRV2605L_REG_MODE,
                                          val |-> DRV2605L_MODE_INTTRIG, ok |-> TRUE] >>,
                   regs |-> [res.regs EXCEPT ![DRV2605L_REG_MODE] = DRV2605L_MODE_INTTRIG]]

\* The device clears the go bit so that poll number clearAt is the first to
\* read it clear (0: it stays set), and then reports status.
drv2605l_auto_calibrate(clearAt, status, fault) ==
  IF ~initialized THEN NoBus("ENODEV")
  ELSE IF motor_type # "LRA" THEN NoBus("ENOTSUP")
  ELSE LET cleared == clearAt >= 1 /\ clearAt <= AUTOCAL_TIMEOUT
           polls == IF cleared THEN clearAt ELSE AUTOCAL_TIMEOUT
           \* the value of timeout after the while (timeout-- > 0) loop
           timeout == IF cleared THEN AUTOCAL_TIMEOUT - clearAt ELSE -1
           head == << W(DRV2605L_REG_MODE, DRV2605L_MODE_AUTOCAL),
                      W(DRV2605L_REG_GO, 1) >>
                   \o [k \in 1..polls |->
                        R(DRV2605L_REG_GO, IF k = clearAt THEN 0 ELSE 1)]
           r == IF timeout <= 0
                  THEN BusRun(head, fault, "ETIMEDOUT")
                ELSE IF (status \div 8) % 2 = 1
                  THEN BusRun(head \o << R(DRV2605L_REG_STATUS, status) >>,
                              fault, "EIO")
                ELSE BusRun(head \o << R(DRV2605L_REG_STATUS, status),
                                       W(DRV2605L_REG_MODE, DRV2605L_MODE_INTTRIG) >>,
                            fault, "OK")
           \* the device's own changes: the go bit it cleared, the status it set
           seen == cleared /\ Len(r.bus) >= 2 + clearAt /\ r.bus[2 + clearAt].ok
       IN  [r EXCEPT !.regs = IF seen
                                THEN [r.regs EXCEPT ![DRV2605L_REG_GO] = 0,
                                                    ![DRV2605L_REG_STATUS] = status]
                                ELSE r.regs]

(***************************************************************************)
(* Inputs.                                                                 *)
(***************************************************************************)
\* Longest received buffer of the input specification; sequence commands
\* are taken one byte longer.
MaxBufLen == 3
\* Largest number of the bus transaction of a call that may fail.
MaxFault == 3
\* Number of driver calls in one behaviour of the driver specification.
MaxDrvCalls == 2

\* Byte values at and around every boundary the decoder tests.
DecBytes == {0, 1, 2, 3, 4, 11, 12, 123, 124, 255}

RECURSIVE SeqsUpTo(_, _)
SeqsUpTo(S, n) ==
  IF n = 0 THEN {<<>>}
  ELSE LET shorter == SeqsUpTo(S, n - 1) IN
       shorter \cup {Append(q, x) : q \in {t \in shorter : Len(t) = n - 1}, x \in S}

Fill(n, x) == [i \in 1..n |-> x]

\* Sequence commands around the HAPTIC_MAX_DATA_SIZE limit: count 32 and 33,
\* all ids valid or one invalid id at the last kept or first dropped position;
\* and two arrays of 33 ids for the direct call, with the same invalid ids.
LongBuffers ==
  LET N == HAPTIC_MAX_DATA_SIZE IN
  { <<HAPTIC_CMD_PLAY_SEQUENCE, N>> \o Fill(N, 1),
    <<HAPTIC_CMD_PLAY_SEQUENCE, N>> \o Fill(N - 1, 1) \o <<124>>,
    <<HAPTIC_CMD_PLAY_SEQUENCE, N>> \o Fill(N - 1, 1),
    <<HAPTIC_CMD_PLAY_SEQUENCE, N + 1>> \o Fill(N, 4) \o <<5>>,
    <<HAPTIC_CMD_PLAY_SEQUENCE, N + 1>> \o Fill(N, 4) \o <<0>>,
    <<HAPTIC_CMD_PLAY_SEQUENCE, N + 1>> \o Fill(N - 1, 4) \o <<0, 5>>,
    <<HAPTIC_CMD_PLAY_SEQUENCE, N + 1>> \o Fill(N, 4),
    Fill(N, 4) \o <<0>>,
    Fill(N - 1, 4) \o <<0, 5>>,
    <<HAPTIC_CMD_PLAY_SEQUENCE, 255>> \o Fill(255, 7) }

\* Commands that play something, and their nearest malformed neighbours: a
\* single effect, sequences of one to nine effects (among them the three
\* strong clicks of the protocol example), every pattern index up to the
\* first invalid one, a stop, and the empty buffer.
PlayBuffers ==
  LET eight == <<4, 5, 7, 8, 10, 14, 52, 71, 83>> IN
  { <<HAPTIC_CMD_PLAY_EFFECT, e>> : e \in {1, 14, 123, 124} }
    \cup { <<HAPTIC_CMD_PLAY_SEQUENCE, k>> \o SubSeq(eight, 1, k) : k \in 1..9 }
    \cup { <<HAPTIC_CMD_PLAY_SEQUENCE, 3, 1, 1, 1>>,
           <<HAPTIC_CMD_PLAY_SEQUENCE, 2, 1, 0>> }
    \cup { <<HAPTIC_CMD_PLAY_PATTERN, p>> : p \in 0..12 }
    \cup { <<HAPTIC_CMD_STOP>>, <<>> }

DecBuffers ==
  SeqsUpTo(DecBytes, MaxBufLen)
    \cup {<<HAPTIC_CMD_PLAY_SEQUENCE>> \o q : q \in SeqsUpTo(DecBytes, MaxBufLen)}
    \cup LongBuffers \cup PlayBuffers \cup {NULL}

\* What the BLE peer sends in the system specification.
SysBuffers ==
  { <<>>,
    <<HAPTIC_CMD_PLAY_EFFECT, 14>>,
    <<HAPTIC_CMD_PLAY_EFFECT, 124>>,
    <<HAPTIC_CMD_PLAY_SEQUENCE, 3, 1, 1, 1>>,
    <<HAPTIC_CMD_PLAY_SEQUENCE, 2, 1, 0>>,
    <<HAPTIC_CMD_PLAY_PATTERN, 0>>,
    <<HAPTIC_CMD_PLAY_PATTERN, 12>>,
    <<HAPTIC_CMD_STOP>>,
    <<0>>,
    <<5, 14>>,
    <<65, 13>> }

Faults == 0..MaxFault

(***************************************************************************)
(* Initial state: the statics of the C files at boot, the device at rest.  *)
(***************************************************************************)
NoCall == [op |-> "none", data |-> <<>>, len |-> 0, ret |-> "none", route |-> "none"]
NoDrv == [op |-> "none", args |-> <<>>, ret |-> "none", bus |-> <<>>]

InitCommon ==
  /\ call = NoCall
  /\ sem = 0
  /\ mainPc = "boot"
  /\ workerPc = "wait_init"
  /\ held = <<>>
  /\ dispatched = <<>>
  /\ initialized = FALSE
  /\ motor_type = "ERM"
  /\ regs = [r \in Regs |-> 0]
  /\ drv = NoDrv
  /\ ndrv = 0

Init ==
  /\ InitCommon
  /\ fifo = <<>>
  /\ allocated = 0
  /\ nextId = 1
  /\ enqLog = <<>>
  /\ input = <<>>

(***************************************************************************)
(* Producers.  A producer call validates, allocates and fills its request  *)
(* on its own stack and heap block; the one step other threads can see is  *)
(* k_fifo_put, so the call is one step, taken at the k_fifo_put.           *)
(***************************************************************************)
\* k_malloc may fail at any time and does fail when the heap is full.
MallocOutcomes == {m \in BOOLEAN : m => allocated < HeapCap}

\* A put that pushes at the head of the list (a faulty variant that C1_FifoOrder rules out).
k_fifo_put_at_head(q, item) == <<item>> \o q

\* k_fifo_put appends at the tail.
k_fifo_put(q, item) == Append(q, item)

\* The effect of a producer call with result r on the queue and the heap;
\* what describes the call.

Produce(what, r) ==
  LET items == [i \in 1..Len(r.put) |-> r.put[i] @@ [id |-> nextId]] IN
  /\ fifo' = IF items = <<>> THEN fifo ELSE k_fifo_put(fifo, items[1])
  /\ allocated' = allocated + Len(items)
  /\ nextId' = nextId + Len(items)
  /\ enqLog' = enqLog \o items
  /\ call' = what @@ [ret |-> r.ret]

\* A receive callback that serves a stop command at once, by calling
\* drv2605l_stop on the callback's thread (a faulty variant that C18 rules
\* out).
on_ble_data_received_stop_now(data) ==
  /\ mainPc = "running"
  /\ nextId <= MaxEnq
  /\ LET what(route) == [op |-> "on_ble_data_received", data |-> data,
                         len |-> Len(data), route |-> route]
     IN  IF Len(data) = 0
           THEN /\ Produce(what("none"), [ret |-> "none", put |-> <<>>])
                /\ UNCHANGED <<regs, drv>>
         ELSE IF data[1] = HAPTIC_CMD_STOP
           THEN /\ Produce(what("haptic"), [ret |-> "OK", put |-> <<>>])
                /\ LET r == drv2605l_stop(0) IN
                   /\ regs' = r.regs
                   /\ drv' = [op |-> "stop", args |-> <<>>, ret |-> r.ret,
                              bus |-> r.bus]
         ELSE IF data[1] >= 1 /\ data[1] <= 4
           THEN /\ \E m \in MallocOutcomes :
                     Produce(what("haptic"),
                             haptic_process_ble_data(data, Len(data), m))
                /\ UNCHANGED <<regs, drv>>
         ELSE /\ Produce(what("uart"), [ret |-> "none", put |-> <<>>])
              /\ UNCHANGED <<regs, drv>>
  /\ UNCHANGED <<thrVars, initialized, motor_type, ndrv, input>>

\* A receive callback that forwards a haptic command to the UART when its
\* decoding fails (a faulty variant that C28 rules out).
on_ble_data_received_uart_fallback(data) ==
  /\ mainPc = "running"
  /\ nextId <= MaxEnq
  /\ LET what(route) == [op |-> "on_ble_data_received", data |-> data,
                         len |-> Len(data), route |-> route]
     IN  IF Len(data) = 0
           THEN Produce(what("none"), [ret |-> "none", put |-> <<>>])
         ELSE IF data[1] >= 1 /\ data[1] <= 4
           THEN \E m \in MallocOutcomes :
                  LET r == haptic_process_ble_data(data, Len(data), m) IN
                  Produce(what(IF r.ret = "OK" THEN "haptic" ELSE "uart"), r)
         ELSE Produce(what("uart"), [ret |-> "none", put |-> <<>>])
  /\ UNCHANGED <<thrVars, drvVars, ndrv, input>>

\* main.c: the bt_nus receive callback.  Advertising starts only after
\* haptic_service_init has returned, so data arrives once main is past it.
on_ble_data_received(data) ==
  /\ mainPc = "running"
  /\ nextId <= MaxEnq
  /\ LET what(route) == [op |-> "on_ble_data_received", data |-> data,
                         len |-> Len(data), route |-> route]
     IN  IF Len(data) = 0
           THEN Produce(what("none"), [ret |-> "none", put |-> <<>>])
         ELSE IF data[1] >= 1 /\ data[1] <= 4
           THEN \E m \in MallocOutcomes :
                  Produce(what("haptic"),
                          haptic_process_ble_data(data, Len(data), m))
         ELSE Produce(what("uart"), [ret |-> "none", put |-> <<>>])
  /\ UNCHANGED <<thrVars, drvVars, ndrv, input>>

BleReceive == \E data \in SysBuffers : on_ble_data_received(data)

(***************************************************************************)
(* main(): haptic_service_init.                                            *)
(***************************************************************************)
k_sem_give(s) == IF s < 1 THEN s + 1 ELSE s

MainCallInit ==
  /\ mainPc = "boot"
  /\ mainPc' = "in_init"
  /\ UNCHANGED <<svcVars, drvVars, sem, workerPc, held, dispatched, ndrv, input>>

\* haptic_service_init that gives the semaphore whatever drv2605l_init
\* returned (a faulty variant that C16 rules out).
haptic_service_init_always_signals(bus_ready, fault) ==
  LET r == drv2605l_init("ERM", bus_ready, fault) IN
  /\ initialized' = r.initialized
  /\ motor_type' = r.motor_type
  /\ regs' = r.regs
  /\ drv' = [op |-> "init", args |-> <<"ERM">>, ret |-> r.ret, bus |-> r.bus]
  /\ sem' = k_sem_give(sem)

\* haptic_service_init from the call of drv2605l_init to its return; main
\* goes on whether it succeeded or not.
haptic_service_init(bus_ready, fault) ==
  LET r == drv2605l_init("ERM", bus_ready, fault) IN
  /\ initialized' = r.initialized
  /\ motor_type' = r.motor_type
  /\ regs' = r.regs
  /\ drv' = [op |-> "init", args |-> <<"ERM">>, ret |-> r.ret, bus |-> r.bus]
  /\ sem' = IF r.ret = "OK" THEN k_sem_give(sem) ELSE sem

MainInitReturn ==
  /\ mainPc = "in_init"
  /\ \E bus_ready \in BOOLEAN, fault \in 0..Len(InitTxs("ERM", 0)) :
       haptic_service_init(bus_ready, fault)
  /\ mainPc' = "running"
  /\ UNCHANGED <<svcVars, workerPc, held, dispatched, ndrv, input>>

(***************************************************************************)
(* haptic_thread_entry.                                                    *)
(***************************************************************************)
\* A worker that does not wait for the readiness semaphore (a faulty variant
\* that C33 rules out).
WorkerStart_no_gate ==
  /\ workerPc = "wait_init"
  /\ mainPc = "running"
  /\ sem' = IF sem > 0 THEN sem - 1 ELSE sem
  /\ workerPc' = "get"
  /\ UNCHANGED <<svcVars, drvVars, mainPc, held, dispatched, ndrv, input>>

\* haptic_wait_init: k_sem_take(&haptic_init_ok, K_FOREVER)
WorkerStart ==
  /\ workerPc = "wait_init"
  /\ sem > 0
  /\ sem' = sem - 1
  /\ workerPc' = "get"
  /\ UNCHANGED <<svcVars, drvVars, mainPc, held, dispatched, ndrv, input>>

\* A get that returns the head and leaves it queued (a faulty variant that C2_AtMostOnce rules out).
k_fifo_get_peek(q) == [item |-> Head(q), rest |-> q]

\* A get that hands out a queued Stop request ahead of the requests before it
\* (a faulty variant that C15 rules out).
k_fifo_get_stop_first(q) ==
  LET stops == {i \in 1..Len(q) : q[i].type = "STOP"}
      pick == IF stops = {} THEN 1 ELSE CHOOSE i \in stops : \A j \in stops : i <= j
  IN  [item |-> q[pick],
       rest |-> SubSeq(q, 1, pick - 1) \o SubSeq(q, pick + 1, Len(q))]

\* haptic_get_queued_data: k_fifo_get(&fifo_haptic_data, K_FOREVER) takes the head.
k_fifo_get(q) == [item |-> Head(q), rest |-> Tail(q)]

WorkerGet ==
  /\ workerPc = "get"
  /\ fifo # <<>>
  /\ held' = << k_fifo_get(fifo).item >>
  /\ fifo' = k_fifo_get(fifo).rest
  /\ workerPc' = "dispatch"
  /\ UNCHANGED <<allocated, nextId, enqLog, call, drvVars, sem, mainPc,
                 dispatched, ndrv, input>>

\* A switch that plays only the first effect of a Sequence request (a faulty
\* variant that C19 rules out).
WorkerCall_first_only(h, fault) ==
  CASE h.type = "SINGLE_EFFECT" /\ h.len >= 1 ->
         << [op |-> "play_effect", args |-> <<h.data[1]>>,
             r |-> drv2605l_play_effect(h.data[1], fault)] >>
    [] h.type = "SEQUENCE" /\ h.len > 0 ->
         << [op |-> "play_effect", args |-> <<h.data[1]>>,
             r |-> drv2605l_play_effect(h.data[1], fault)] >>
    [] h.type = "STOP" ->
         << [op |-> "stop", args |-> <<>>, r |-> drv2605l_stop(fault)] >>
    [] OTHER -> <<>>

\* A switch that plays the first byte of a Custom request as an effect and
\* hands a Sequence request to the driver whatever its length (a faulty
\* variant that C30 rules out).
WorkerCall_plays_custom(h, fault) ==
  CASE h.type = "SINGLE_EFFECT" /\ h.len >= 1 ->
         << [op |-> "play_effect", args |-> <<h.data[1]>>,
             r |-> drv2605l_play_effect(h.data[1], fault)] >>
    [] h.type = "CUSTOM" /\ h.len >= 1 ->
         << [op |-> "play_effect", args |-> <<h.data[1]>>,
             r |-> drv2605l_play_effect(h.data[1], fault)] >>
    [] h.type = "SEQUENCE" ->
         << [op |-> "play_sequence", args |-> <<h.data, h.len>>,
             r |-> drv2605l_play_sequence(h.data, h.len, fault)] >>
    [] h.type = "STOP" ->
         << [op |-> "stop", args |-> <<>>, r |-> drv2605l_stop(fault)] >>
    [] OTHER -> <<>>

\* The driver call the switch makes for request h: <<>> (none) or the call.
WorkerCall(h, fault) ==
  CASE h.type = "SINGLE_EFFECT" /\ h.len >= 1 ->
         << [op |-> "play_effect", args |-> <<h.data[1]>>,
             r |-> drv2605l_play_effect(h.data[1], fault)] >>
    [] h.type = "SEQUENCE" /\ h.len > 0 ->
         << [op |-> "play_sequence", args |-> <<h.data, h.len>>,
             r |-> drv2605l_play_sequence(h.data, h.len, fault)] >>
    [] h.type = "STOP" ->
         << [op |-> "stop", args |-> <<>>, r |-> drv2605l_stop(fault)] >>
    [] OTHER -> <<>>

\* A worker that keeps the request and calls the driver again when the driver
\* call failed (a faulty variant that C14 rules out).
WorkerDispatch_retry ==
  /\ workerPc = "dispatch"
  /\ \E fault \in Faults :
       LET c == WorkerCall(held[1], fault)
           failed == c # <<>> /\ c[1].r.ret # "OK"
       IN  /\ IF c = <<>>
                THEN UNCHANGED <<regs, drv>>
                ELSE /\ regs' = c[1].r.regs
                     /\ drv' = [op |-> c[1].op, args |-> c[1].args,
                                ret |-> c[1].r.ret, bus |-> c[1].r.bus]
           /\ IF failed
                THEN UNCHANGED <<dispatched, held, allocated, workerPc>>
                ELSE /\ dispatched' = Append(dispatched, held[1])
                     /\ held' = <<>>
                     /\ allocated' = allocated - 1
                     /\ workerPc' = "sleep"
  /\ UNCHANGED <<fifo, nextId, enqLog, call, initialized, motor_type, sem,
                 mainPc, ndrv, input>>

\* A worker that goes straight to the next dequeue when the switch made no
\* driver call (a faulty variant that C25 rules out).
WorkerDispatch_no_delay_on_skip ==
  /\ workerPc = "dispatch"
  /\ \E fault \in Faults :
       LET c == WorkerCall(held[1], fault) IN
       IF c = <<>>
         THEN /\ UNCHANGED <<regs, drv>>
              /\ workerPc' = "get"
         ELSE /\ regs' = c[1].r.regs
              /\ drv' = [op |-> c[1].op, args |-> c[1].args,
                         ret |-> c[1].r.ret, bus |-> c[1].r.bus]
              /\ workerPc' = "sleep"
  /\ dispatched' = Append(dispatched, held[1])
  /\ held' = <<>>
  /\ allocated' = allocated - 1
  /\ UNCHANGED <<fifo, nextId, enqLog, call, initialized, motor_type, sem,
                 mainPc, ndrv, input>>

\* A worker that does not free the request when the driver call failed (a
\* faulty variant that C34 rules out).
WorkerDispatch_leak_on_error ==
  /\ workerPc = "dispatch"
  /\ \E fault \in Faults :
       LET c == WorkerCall(held[1], fault) IN
       IF c = <<>>
         THEN /\ UNCHANGED <<regs, drv>>
              /\ allocated' = allocated - 1
         ELSE /\ regs' = c[1].r.regs
              /\ drv' = [op |-> c[1].op, args |-> c[1].args,
                         ret |-> c[1].r.ret, bus |-> c[1].r.bus]
              /\ allocated' = IF c[1].r.ret = "OK" THEN allocated - 1 ELSE allocated
  /\ dispatched' = Append(dispatched, held[1])
  /\ held' = <<>>
  /\ workerPc' = "sleep"
  /\ UNCHANGED <<fifo, nextId, enqLog, call, initialized, motor_type, sem,
                 mainPc, ndrv, input>>

\* The switch on the request type, then k_free.
WorkerDispatch ==
  /\ workerPc = "dispatch"
  /\ \E fault \in Faults :
       LET c == WorkerCall(held[1], fault) IN
       IF c = <<>>
         THEN UNCHANGED <<regs, drv>>
         ELSE /\ regs' = c[1].r.regs
              /\ drv' = [op |-> c[1].op, args |-> c[1].args,
                         ret |-> c[1].r.ret, bus |-> c[1].r.bus]
  /\ dispatched' = Append(dispatched, held[1])
  /\ held' = <<>>
  /\ allocated' = allocated - 1
  /\ workerPc' = "sleep"
  /\ UNCHANGED <<fifo, nextId, enqLog, call, initialized, motor_type, sem,
                 mainPc, ndrv, input>>

\* A worker that takes the readiness semaphore again after every request (a
\* faulty variant that C32 rules out).
WorkerSleep_to_gate ==
  /\ workerPc = "sleep"
  /\ workerPc' = "wait_init"
  /\ UNCHANGED <<svcVars, drvVars, sem, mainPc, held, dispatched, ndrv, input>>

\* k_sleep(K_MSEC(10))
WorkerSleep ==
  /\ workerPc = "sleep"
  /\ workerPc' = "get"
  /\ UNCHANGED <<svcVars, drvVars, sem, mainPc, held, dispatched, ndrv, input>>

(***************************************************************************)
(* The device: playback ends and the go bit clears by itself.              *)
(***************************************************************************)
DeviceDone ==
  /\ regs[DRV2605L_REG_GO] % 2 = 1
  /\ regs' = [regs EXCEPT ![DRV2605L_REG_GO] = 0]
  /\ UNCHANGED <<svcVars, thrVars, initialized, motor_type, drv, ndrv, input>>

(***************************************************************************)
(* The system as main.c wires it.                                          *)
(***************************************************************************)
Next ==
  \/ MainCallInit
  \/ MainInitReturn
  \/ BleReceive
  \/ WorkerStart
  \/ WorkerGet
  \/ WorkerDispatch
  \/ WorkerSleep
  \/ DeviceDone

Spec == Init /\ [][Next]_vars

(***************************************************************************)
(* Properties of the system specification.                                 *)
(***************************************************************************)
Ids(q) == {q[i].id : i \in 1..Len(q)}

\* What haptic_get_queued_data has returned so far, in order.
Returned == dispatched \o held

\* C1: the worker dispatches the requests in the order in which they were put
\* on the queue: the k-th request dispatched is the k-th request enqueued.
C1_FifoOrder ==
  /\ Len(dispatched) <= Len(enqLog)
  /\ \A k \in 1..Len(dispatched) : dispatched[k] = enqLog[k]

\* Three different requests were queued while earlier ones were still pending
\* and all three have been dispatched.
C1_Witness ==
  /\ Len(dispatched) >= 3
  /\ dispatched[1].type = "SEQUENCE"
  /\ dispatched[2].type = "STOP"
  /\ dispatched[3].type = "SINGLE_EFFECT"

\* C2: a request is returned by haptic_get_queued_data at most once and
\* dispatched at most once, and only requests that were enqueued are returned.
C2_AtMostOnce ==
  /\ \A i, j \in 1..Len(Returned) : i # j => Returned[i].id # Returned[j].id
  /\ Ids(Returned) \cap Ids(fifo) = {}
  /\ \A i \in 1..Len(Returned) : \E k \in 1..Len(enqLog) : Returned[i] = enqLog[k]

\* A request has been dispatched, another is held and a third is queued.
C2_Witness ==
  /\ Len(dispatched) >= 1
  /\ held # <<>>
  /\ fifo # <<>>

(***************************************************************************)
(* The input specification: one arbitrary buffer is handed to one entry    *)
(* point of the running system, either a producer function of              *)
(* haptic_service.c (the worker then serves the queue) or a play function  *)
(* of the driver.  It starts where the system specification is after a     *)
(* successful haptic_service_init, with the worker waiting for a request.  *)
(***************************************************************************)
InitInput ==
  /\ call = NoCall
  /\ sem = 0
  /\ mainPc = "running"
  /\ workerPc = "get"
  /\ held = <<>>
  /\ dispatched = <<>>
  /\ initialized = TRUE
  /\ motor_type = "ERM"
  /\ regs = ApplyWrites([r \in Regs |-> 0], InitTxs("ERM", 0))
  /\ drv = [op |-> "init", args |-> <<"ERM">>, ret |-> "OK",
            bus |-> BusRun(InitTxs("ERM", 0), 0, "OK").bus]
  /\ ndrv = 0
  /\ fifo = <<>>
  /\ allocated = 0
  /\ nextId = 1
  /\ enqLog = <<>>
  /\ input \in DecBuffers

Fresh == call.op = "none" /\ ndrv = 0

\* A direct call of a haptic_service.c function, by any thread.
Api(op, data, len, r) ==
  /\ Fresh
  /\ Produce([op |-> op, data |-> data, len |-> len, route |-> "direct"], r)
  /\ UNCHANGED <<thrVars, drvVars, ndrv, input>>

\* The length passed with a buffer is its length; 1 with the null pointer.
InputLen == IF input = NULL THEN 1 ELSE Len(input)

ApiProcessBle ==
  \E m \in MallocOutcomes :
    Api("haptic_process_ble_data", input, InputLen,
        haptic_process_ble_data(input, InputLen, m))

ApiPlayEffect ==
  /\ input # NULL /\ Len(input) >= 1
  /\ \E m \in MallocOutcomes :
       Api("haptic_play_effect", <<input[1]>>, 1, haptic_play_effect(input[1], m))

\* count is a uint8_t
ApiPlaySequence ==
  /\ InputLen <= 255
  /\ \E m \in MallocOutcomes :
       Api("haptic_play_sequence", input, InputLen,
           haptic_play_sequence(input, InputLen, m))

ApiPlayPattern ==
  /\ input # NULL /\ Len(input) >= 1
  /\ \E m \in MallocOutcomes :
       Api("haptic_play_pattern", <<input[1]>>, 1, haptic_play_pattern(input[1], m))

\* haptic_stop takes no argument: it is tried with the empty input.
ApiStop ==
  /\ input = <<>>
  /\ \E m \in MallocOutcomes : Api("haptic_stop", <<>>, 0, haptic_stop(m))

\* A direct call of a driver function, by any thread.
Drv(op, args, r) ==
  /\ regs' = r.regs
  /\ drv' = [op |-> op, args |-> args, ret |-> r.ret, bus |-> r.bus]
  /\ ndrv' = ndrv + 1
  /\ UNCHANGED <<svcVars, thrVars, initialized, motor_type, input>>

DirectPlayEffect ==
  /\ Fresh
  /\ input # NULL /\ Len(input) >= 1
  /\ \E fault \in Faults :
       Drv("play_effect", <<input[1]>>, drv2605l_play_effect(input[1], fault))

DirectPlaySequence ==
  /\ Fresh
  /\ InputLen <= 255
  /\ \E fault \in Faults :
       Drv("play_sequence", <<input, InputLen>>,
           drv2605l_play_sequence(input, InputLen, fault))

NextInput ==
  \/ ApiProcessBle
  \/ ApiPlayEffect
  \/ ApiPlaySequence
  \/ ApiPlayPattern
  \/ ApiStop
  \/ DirectPlayEffect
  \/ DirectPlaySequence
  \/ WorkerGet
  \/ WorkerDispatch
  \/ WorkerSleep

SpecInput == InitInput /\ [][NextInput]_vars

(***************************************************************************)
(* The driver specification: any caller calls the functions of drv2605l.h  *)
(* in any order, on a driver that is fresh from boot or that a successful  *)
(* drv2605l_init has set up for either motor type.                         *)
(***************************************************************************)
MotorTypes == {"ERM", "LRA"}

InitDriver ==
  /\ call = NoCall
  /\ sem = 0
  /\ mainPc = "boot"
  /\ workerPc = "wait_init"
  /\ held = <<>>
  /\ dispatched = <<>>
  /\ fifo = <<>>
  /\ allocated = 0
  /\ nextId = 1
  /\ enqLog = <<>>
  /\ input = <<>>
  /\ ndrv = 0
  /\ drv = NoDrv
  /\ \/ /\ initialized = FALSE
        /\ motor_type = "ERM"
        /\ regs = [r \in Regs |-> 0]
     \/ \E type \in MotorTypes :
          /\ initialized = TRUE
          /\ motor_type = type
          /\ regs = ApplyWrites([r \in Regs |-> 0], InitTxs(type, 0))

\* Arguments at and around the limits the driver tests.
EffectArgs == {0, 1, 123, 124}

SeqArgs ==
  { [effects |-> NULL, count |-> 1],
    [effects |-> <<7>>, count |-> 0],
    [effects |-> <<14>>, count |-> 1],
    [effects |-> <<1, 0, 4>>, count |-> 3],
    [effects |-> <<5, 124, 8>>, count |-> 3],
    [effects |-> <<4, 5, 7, 8, 10, 14, 52>>, count |-> 7],
    [effects |-> <<4, 5, 7, 8, 10, 14, 52, 71>>, count |-> 8],
    [effects |-> <<4, 5, 7, 8, 10, 14, 52, 71, 83>>, count |-> 9],
    [effects |-> <<4, 5, 7, 8, 10, 14, 52, 71, 200>>, count |-> 9],
    [effects |-> Fill(HAPTIC_MAX_DATA_SIZE, 87), count |-> HAPTIC_MAX_DATA_SIZE],
    [effects |-> Fill(255, 3), count |-> 255] }

\* The bus may fail any transaction of the call.
SeqFaults(a) == 0..(Min(a.count, DRV2605L_MAX_WAVEFORM_SEQ) + 2)

\* Poll at which the device clears the go bit (0: never within the call).
ClearAts == {0, 1, 2, AUTOCAL_TIMEOUT - 1, AUTOCAL_TIMEOUT}
\* Status values: diagnostic bit clear or set.
StatusValues == {0, 8}

DrvInit ==
  /\ ndrv < MaxDrvCalls
  /\ \E type \in MotorTypes, bus_ready \in BOOLEAN :
     \E fault \in 0..Len(InitTxs(type, 0)) :
       LET r == drv2605l_init(type, bus_ready, fault) IN
       /\ initialized' = r.initialized
       /\ motor_type' = r.motor_type
       /\ regs' = r.regs
       /\ drv' = [op |-> "init", args |-> <<type>>, ret |-> r.ret, bus |-> r.bus]
  /\ ndrv' = ndrv + 1
  /\ UNCHANGED <<svcVars, thrVars, input>>

DrvPlayEffect ==
  /\ ndrv < MaxDrvCalls
  /\ \E effect \in EffectArgs, fault \in Faults :
       Drv("play_effect", <<effect>>, drv2605l_play_effect(effect, fault))

DrvPlaySequence ==
  /\ ndrv < MaxDrvCalls
  /\ \E a \in SeqArgs : \E fault \in SeqFaults(a) :
       Drv("play_sequence", <<a.effects, a.count>>,
           drv2605l_play_sequence(a.effects, a.count, fault))

DrvStop ==
  /\ ndrv < MaxDrvCalls
  /\ \E fault \in {0, 1} : Drv("stop", <<>>, drv2605l_stop(fault))

DrvStandby ==
  /\ ndrv < MaxDrvCalls
  /\ \E fault \in {0, 1} : Drv("standby", <<>>, drv2605l_standby(fault))

DrvWakeup ==
  /\ ndrv < MaxDrvCalls
  /\ \E fault \in {0, 1} : Drv("wakeup", <<>>, drv2605l_wakeup(fault))

DrvIsPlaying ==
  /\ ndrv < MaxDrvCalls
  /\ \E fault \in {0, 1} : Drv("is_playing", <<>>, drv2605l_is_playing(fault))

DrvAutoCalibrate ==
  /\ ndrv < MaxDrvCalls
  /\ \E clearAt \in ClearAts, status \in StatusValues :
       \E fault \in Faults \cup {clearAt + 3, clearAt + 4} :
         Drv("auto_calibrate", <<clearAt, status>>,
             drv2605l_auto_calibrate(clearAt, status, fault))

NextDriver ==
  \/ DrvInit
  \/ DrvPlayEffect
  \/ DrvPlaySequence
  \/ DrvStop
  \/ DrvStandby
  \/ DrvWakeup
  \/ DrvIsPlaying
  \/ DrvAutoCalibrate
  \/ DeviceDone

SpecDriver == InitDriver /\ [][NextDriver]_vars

(***************************************************************************)
(* Properties of the input and driver specifications.                      *)
(***************************************************************************)
ValidId(e) == e >= 1 /\ e <= 123

SlotRegs == DRV2605L_REG_WAVESEQ1 .. DRV2605L_REG_WAVESEQ8

\* The request a producer call puts on the empty queue of the input
\* specification, as k_fifo_put receives it.
Req(type, data) == [type |-> type, data |-> data, len |-> Len(data), id |-> 1]

\* The last producer call was haptic_process_ble_data on a buffer of at least
\* n bytes and did not run out of memory.
Decoded(n) ==
  /\ call.op = "haptic_process_ble_data"
  /\ call.data # NULL
  /\ call.len >= n
  /\ call.ret # "ENOMEM"

\* C3: an effect id outside 1..123 never reaches the hardware: no queued or
\* held request carries one, no waveform-slot register holds one and no bus
\* write to a waveform slot carries a value other than 0 or a valid id.
C3_NoInvalidEffect ==
  /\ \A i \in 1..Len(fifo \o held) :
       \A k \in 1..Len((fifo \o held)[i].data) : ValidId((fifo \o held)[i].data[k])
  /\ \A a \in SlotRegs : regs[a] = 0 \/ ValidId(regs[a])
  /\ \A i \in 1..Len(drv.bus) :
       (drv.bus[i].op = "w" /\ drv.bus[i].reg \in SlotRegs)
         => (drv.bus[i].val = 0 \/ ValidId(drv.bus[i].val))

\* The driver was given a sequence whose third id is invalid: it wrote two
\* slots and rejected the call.
C3_Witness ==
  /\ drv.op = "play_sequence"
  /\ drv.ret = "EINVAL"
  /\ Len(drv.bus) = 2
  /\ ~ValidId(drv.args[1][3])

\* C4: while initialized is false, play_effect, play_sequence, stop, standby,
\* wakeup and auto_calibrate return the error -ENODEV and perform no bus
\* transaction.  (None of them changes initialized, so its value after the
\* call is its value before.)
C4_UninitializedFails ==
  (/\ ~initialized
   /\ drv.op \in {"play_effect", "play_sequence", "stop", "standby", "wakeup",
                  "auto_calibrate"})
    => (drv.ret = "ENODEV" /\ drv.bus = <<>>)

\* An init call failed after it had written the library register, and a
\* playback call followed.
C4_Witness ==
  /\ ~initialized
  /\ regs[DRV2605L_REG_LIBRARY] = DRV2605L_LIB_LRA
  /\ drv.op = "play_sequence"

\* C5 as stated: a sequence buffer decodes iff its length is exactly 2 + N and
\* all N ids are valid, and then the request holds exactly e_1..e_N.
C5_Original ==
  (Decoded(2) /\ call.data[1] = HAPTIC_CMD_PLAY_SEQUENCE)
    => LET N == call.data[2]
           accept == /\ call.len = 2 + N
                     /\ \A i \in 1..N : ValidId(call.data[2 + i])
       IN  /\ (call.ret = "OK") <=> accept
           /\ call.ret = "OK"
                => enqLog = << Req("SEQUENCE", SubSeq(call.data, 3, 2 + N)) >>

\* C5 amended: a sequence buffer [0x02, N, e_1, ...] decodes iff N >= 1, its
\* length is at least 2 + N and the first min(N, 32) ids are valid; the
\* request then holds exactly those ids in order, and otherwise the call
\* returns -EINVAL and nothing is queued.
C5_SequenceDecode ==
  (Decoded(2) /\ call.data[1] = HAPTIC_CMD_PLAY_SEQUENCE)
    => LET N == call.data[2]
           kept == Min(N, HAPTIC_MAX_DATA_SIZE)
           accept == /\ N >= 1
                     /\ call.len >= 2 + N
                     /\ \A i \in 1..kept : ValidId(call.data[2 + i])
       IN  /\ (call.ret = "OK") <=> accept
           /\ call.ret = "OK"
                => enqLog = << Req("SEQUENCE", SubSeq(call.data, 3, 2 + kept)) >>
           /\ call.ret # "OK" => (call.ret = "EINVAL" /\ enqLog = <<>>)

\* A sequence command of 33 ids was accepted and queued with 32.
C5_Witness ==
  /\ Decoded(2)
  /\ call.data[1] = HAPTIC_CMD_PLAY_SEQUENCE
  /\ call.data[2] = HAPTIC_MAX_DATA_SIZE + 1
  /\ call.ret = "OK"
  /\ enqLog # <<>>
  /\ enqLog[1].len = HAPTIC_MAX_DATA_SIZE

\* C6: a buffer [0x01, e, ...] queues SingleEffect(e) and returns 0 when e is
\* in 1..123, and returns -EINVAL queueing nothing when it is not; the
\* one-byte buffer [0x01] returns -EINVAL and queues nothing.
C6_SingleEffectDecode ==
  (Decoded(1) /\ call.data[1] = HAPTIC_CMD_PLAY_EFFECT)
    => IF call.len >= 2 /\ ValidId(call.data[2])
         THEN call.ret = "OK" /\ enqLog = << Req("SINGLE_EFFECT", <<call.data[2]>>) >>
         ELSE call.ret = "EINVAL" /\ enqLog = <<>>

\* The largest valid id was decoded from a buffer with a trailing byte.
C6_Witness ==
  /\ Decoded(3)
  /\ call.data[1] = HAPTIC_CMD_PLAY_EFFECT
  /\ call.data[2] = 123
  /\ call.ret = "OK"

\* C7: a buffer [0x03, p, ...] is accepted iff p is in 0..11 and then queues
\* Sequence(table[p]); otherwise it returns -EINVAL and queues nothing.  The
\* table has twelve entries, all non-empty with ids in 1..123; entry 0 is
\* one SHARP_CLICK_100 (4) and entry 3 is three STRONG_CLICK_100 (1).
C7_PatternDecode ==
  /\ (Decoded(2) /\ call.data[1] = HAPTIC_CMD_PLAY_PATTERN)
       => LET p == call.data[2] IN
          IF p >= 0 /\ p <= 11
            THEN /\ call.ret = "OK"
                 /\ enqLog = << Req("SEQUENCE", predefined_patterns[p + 1]) >>
            ELSE call.ret = "EINVAL" /\ enqLog = <<>>
  /\ Len(predefined_patterns) = 12
  /\ \A p \in 1..Len(predefined_patterns) :
       /\ predefined_patterns[p] # <<>>
       /\ \A k \in 1..Len(predefined_patterns[p]) : ValidId(predefined_patterns[p][k])
  /\ predefined_patterns[1] = <<4>>
  /\ predefined_patterns[4] = <<1, 1, 1>>

\* The last pattern of the table was decoded and queued.
C7_Witness ==
  /\ Decoded(2)
  /\ call.data[1] = HAPTIC_CMD_PLAY_PATTERN
  /\ call.data[2] = 11
  /\ call.ret = "OK"
  /\ enqLog = << Req("SEQUENCE", <<14>>) >>

\* C8: a buffer whose first byte is 0x04 queues exactly one Stop request with
\* no effects and returns 0, whatever follows the first byte.
C8_StopDecode ==
  (Decoded(1) /\ call.data[1] = HAPTIC_CMD_STOP)
    => (call.ret = "OK" /\ enqLog = << Req("STOP", <<>>) >>)

\* A stop command with two trailing bytes was decoded.
C8_Witness ==
  /\ Decoded(3)
  /\ call.data[1] = HAPTIC_CMD_STOP
  /\ call.ret = "OK"

\* C9: a non-empty buffer whose first byte is not 1..4 returns -ENOTSUP, which
\* is not the -EINVAL of a malformed command, and queues nothing; an empty
\* buffer and a null pointer return -EINVAL and queue nothing.
C9_UnsupportedAndEmpty ==
  /\ (Decoded(1) /\ call.data[1] \notin HAPTIC_CMD_PLAY_EFFECT..HAPTIC_CMD_STOP)
       => (call.ret = "ENOTSUP" /\ enqLog = <<>>)
  /\ (call.op = "haptic_process_ble_data" /\ (call.data = NULL \/ call.len = 0))
       => (call.ret = "EINVAL" /\ enqLog = <<>>)

\* A buffer with an unknown first byte and a payload was refused.
C9_Witness ==
  /\ Decoded(2)
  /\ call.data[1] = 255
  /\ call.ret = "ENOTSUP"

(***************************************************************************)
(* More properties of the system specification.                            *)
(***************************************************************************)
\* C10: a producer call that returns an error leaves the queue, the record of
\* what was ever enqueued and the heap exactly as they were.
C10_ErrorLeavesQueue ==
  [][(call' # call /\ call'.ret \notin {"OK", "none"})
       => (fifo' = fifo /\ enqLog' = enqLog /\ allocated' = allocated)]_vars

\* A call failed for lack of memory while two requests were queued.
C10_Witness ==
  /\ call.ret = "ENOMEM"
  /\ Len(fifo) = 2

(***************************************************************************)
(* Properties of the register writes of the playback functions.            *)
(***************************************************************************)
\* The bus record of the transactions txs when none of them fails.
Done(txs) ==
  [i \in 1..Len(txs) |->
     [op |-> txs[i].op, reg |-> txs[i].reg, val |-> txs[i].val, ok |-> TRUE]]

\* No transaction of the bus record failed.
AllOk(bus) == \A i \in 1..Len(bus) : bus[i].ok

\* The last driver call was drv2605l_play_sequence on an initialized driver
\* with a non-null array and a non-zero count.
SeqCalled ==
  /\ drv.op = "play_sequence"
  /\ initialized
  /\ drv.args[1] # NULL
  /\ drv.args[2] > 0

\* The ids drv2605l_play_sequence looks at: the first min(count, 8).
Kept == SubSeq(drv.args[1], 1, Min(drv.args[2], DRV2605L_MAX_WAVEFORM_SEQ))

\* C11 as stated: when one of the first min(count, 8) ids of the sequence is
\* outside 1..123, drv2605l_play_sequence returns -EINVAL and has performed
\* no register write (the bus did not fail).
C11_ValidateBeforeWrite ==
  (SeqCalled /\ AllOk(drv.bus) /\ \E i \in 1..Len(Kept) : ~ValidId(Kept[i]))
    => (drv.ret = "EINVAL" /\ drv.bus = <<>>)

\* The writes of a play call for the valid ids effs (at most eight): slot i
\* takes id i, the slot after the last takes the terminator 0 when one
\* remains, and the go register takes 1.
PlayWrites(effs) ==
  [i \in 1..Len(effs) |-> W(DRV2605L_REG_WAVESEQ1 + (i - 1), effs[i])]
    \o (IF Len(effs) < DRV2605L_MAX_WAVEFORM_SEQ
          THEN << W(DRV2605L_REG_WAVESEQ1 + Len(effs), 0) >>
          ELSE <<>>)
    \o << W(DRV2605L_REG_GO, 1) >>

\* The bus record starts as the transactions txs do.
StartsAs(bus, txs) ==
  /\ Len(bus) <= Len(txs)
  /\ \A i \in 1..Len(bus) :
       bus[i].op = txs[i].op /\ bus[i].reg = txs[i].reg /\ bus[i].val = txs[i].val

\* C12: a sequence of more than 8 (valid) effects is truncated to its first 8:
\* drv2605l_play_sequence writes effects 1..8 to slots 1..8 in order, then go
\* once, with no terminator and no write of a later effect; a failing bus
\* only cuts this list short.
C12_Truncation ==
  (SeqCalled /\ drv.args[2] > DRV2605L_MAX_WAVEFORM_SEQ
     /\ \A i \in 1..Len(Kept) : ValidId(Kept[i]))
    => /\ StartsAs(drv.bus, PlayWrites(Kept))
       /\ Len(PlayWrites(Kept)) = DRV2605L_MAX_WAVEFORM_SEQ + 1
       /\ AllOk(drv.bus) => (drv.bus = Done(PlayWrites(Kept)) /\ drv.ret = "OK")

\* The worker has dispatched a queued sequence of 32 effects and the driver
\* made nine writes for it.
C12_Witness ==
  /\ dispatched # <<>>
  /\ drv.op = "play_sequence"
  /\ drv.args[2] = HAPTIC_MAX_DATA_SIZE
  /\ drv.ret = "OK"
  /\ Len(drv.bus) = DRV2605L_MAX_WAVEFORM_SEQ + 1

\* The contents of the eight waveform slots.
Slots(r) == [a \in SlotRegs |-> r[a]]

\* The last driver call was drv2605l_play_sequence with 1..8 valid ids, on an
\* initialized driver, and the bus did not fail.
ShortSeqPlayed(d) ==
  /\ d.op = "play_sequence"
  /\ initialized
  /\ d.args[1] # NULL
  /\ d.args[2] >= 1 /\ d.args[2] <= DRV2605L_MAX_WAVEFORM_SEQ
  /\ \A i \in 1..d.args[2] : ValidId(d.args[1][i])
  /\ AllOk(d.bus)

\* C13: for a valid sequence of k effects, 1 <= k <= 8, on an initialized
\* driver with a non-failing bus, drv2605l_play_sequence writes slot i =
\* effect i for i in 1..k, then one terminator 0 into slot k+1 if k < 8, then
\* go = 1, and nothing else; a second call with the same input right after
\* performs the same writes and leaves the same slot contents.
C13_SequenceWrites ==
  [][(ndrv' # ndrv /\ ShortSeqPlayed(drv'))
       => LET effs == SubSeq(drv'.args[1], 1, drv'.args[2]) IN
          /\ drv'.ret = "OK"
          /\ drv'.bus = Done(PlayWrites(effs))
          /\ Len(drv'.bus) = Len(effs) + (IF Len(effs) < 8 THEN 2 ELSE 1)
          /\ \A i \in 1..Len(effs) : regs'[DRV2605L_REG_WAVESEQ1 + (i - 1)] = effs[i]
          /\ Len(effs) < 8 => regs'[DRV2605L_REG_WAVESEQ1 + Len(effs)] = 0
          /\ (ShortSeqPlayed(drv) /\ drv.args = drv'.args)
               => (drv'.bus = drv.bus /\ Slots(regs') = Slots(regs))]_vars

\* A sequence of seven effects was played as the second driver call: slot 7
\* holds its last id and slot 8 the terminator.
C13_Witness ==
  /\ ndrv = 2
  /\ ShortSeqPlayed(drv)
  /\ drv.args[2] = 7
  /\ regs[DRV2605L_REG_WAVESEQ8] = 0
  /\ regs[DRV2605L_REG_WAVESEQ1 + 6] = 52

(***************************************************************************)
(* The system with its scheduling: the haptic thread is a preemptible      *)
(* thread that no other thread keeps from running, k_sem_take and          *)
(* k_fifo_get return once the semaphore is given or the queue holds an     *)
(* item, k_sleep returns after its 10 ms, and a driver call returns (an    *)
(* I2C transfer completes or fails).  A step of the worker that stays      *)
(* possible is therefore taken.                                            *)
(***************************************************************************)
\* What the BLE peer sends here: one command for each driver call the worker
\* makes.
LiveBuffers ==
  { <<HAPTIC_CMD_PLAY_EFFECT, 14>>,
    <<HAPTIC_CMD_PLAY_SEQUENCE, 3, 1, 1, 1>>,
    <<HAPTIC_CMD_STOP>> }

BleReceiveLive == \E data \in LiveBuffers : on_ble_data_received(data)

NextLive ==
  \/ MainCallInit
  \/ MainInitReturn
  \/ BleReceiveLive
  \/ WorkerStart
  \/ WorkerGet
  \/ WorkerDispatch
  \/ WorkerSleep
  \/ DeviceDone

SpecLive ==
  /\ Init /\ [][NextLive]_vars
  /\ WF_vars(WorkerStart)
  /\ WF_vars(WorkerGet)
  /\ WF_vars(WorkerDispatch)
  /\ WF_vars(WorkerSleep)

\* The worker has just dispatched a request and the driver call it made for
\* it returned an error.
DriverFailed ==
  /\ workerPc = "sleep"
  /\ dispatched # <<>>
  /\ drv.op \in {"play_effect", "play_sequence", "stop"}
  /\ drv.ret # "OK"

\* C14: no driver error halts the worker.  Whatever the driver call returns,
\* the step of the worker that dispatches a request frees it, keeps it off
\* the queue and moves on to the sleep before the next dequeue; and when the
\* driver call failed while another request is queued, the worker goes on to
\* dispatch that request.
C14_ErrorDoesNotHaltWorker ==
  /\ [][(workerPc = "dispatch"
           /\ (drv' # drv \/ workerPc' # workerPc \/ held' # held))
          => /\ workerPc' = "sleep"
             /\ held' = <<>>
             /\ dispatched' = Append(dispatched, held[1])
             /\ allocated' = allocated - 1
             /\ fifo' = fifo]_vars
  /\ (DriverFailed /\ fifo # <<>>) ~> (workerPc = "dispatch")
  /\ (workerPc = "dispatch") ~> (workerPc = "sleep")

\* A driver call failed on the bus, its request was freed, and the next
\* request is waiting in the queue.
C14_Witness ==
  /\ DriverFailed
  /\ drv.ret = "I2C_ERR"
  /\ held = <<>>
  /\ fifo # <<>>
  /\ allocated = Len(fifo)

C16_GatedOnce ==
  /\ [](/\ workerPc = "wait_init"
             => (held = <<>> /\ dispatched = <<>> /\ drv.op \in {"none", "init"})
        /\ (workerPc # "wait_init" \/ sem > 0)
             => (initialized /\ mainPc = "running"))
  /\ [][/\ sem' > sem => (drv'.op = "init" /\ drv'.ret = "OK" /\ drv' # drv)
        /\ (fifo' # fifo /\ Len(fifo') < Len(fifo)) => workerPc # "wait_init"
        /\ workerPc # "wait_init" => workerPc' # "wait_init"]_vars

\* drv2605l_init failed, two requests are queued, and the worker still waits
\* at the gate.
C16_Witness ==
  /\ mainPc = "running"
  /\ ~initialized
  /\ drv.ret = "I2C_ERR"
  /\ Len(fifo) = 2
  /\ workerPc = "wait_init"

\* A well-formed command buffer, as the command formats define it: a single
\* effect with a valid id, a sequence of N >= 1 ids all present whose first
\* min(N, 32) are valid, a pattern index below 12, or a stop.
WellFormed(d) ==
  /\ d # NULL
  /\ Len(d) >= 1
  /\ CASE d[1] = HAPTIC_CMD_PLAY_EFFECT -> Len(d) >= 2 /\ ValidId(d[2])
       [] d[1] = HAPTIC_CMD_PLAY_SEQUENCE ->
            /\ Len(d) >= 2
            /\ d[2] >= 1
            /\ Len(d) >= 2 + d[2]
            /\ \A i \in 1..Min(d[2], HAPTIC_MAX_DATA_SIZE) : ValidId(d[2 + i])
       [] d[1] = HAPTIC_CMD_PLAY_PATTERN -> Len(d) >= 2 /\ d[2] < 12
       [] d[1] = HAPTIC_CMD_STOP -> TRUE
       [] OTHER -> FALSE

\* C17: a well-formed request fails to enqueue only for lack of memory.  A
\* command handed to the haptic service returns 0 or -ENOMEM when it is
\* well-formed, and only then; with -ENOMEM (always, once the heap is
\* exhausted) the request is dropped and the queue, its history and the heap
\* are unchanged; with 0 exactly one request is appended behind the queued
\* ones; and the decoder returns 0 when the allocation succeeds and -ENOMEM
\* when it fails.  All this in every state of the worker.
C17_EnqueueFailsOnlyOnOom ==
  [][(call' # call /\ call'.route = "haptic")
       => LET d == call'.data
              wf == WellFormed(d)
          IN  /\ wf <=> call'.ret \in {"OK", "ENOMEM"}
              /\ (wf /\ allocated >= HeapCap) => call'.ret = "ENOMEM"
              /\ call'.ret = "ENOMEM"
                   => (fifo' = fifo /\ enqLog' = enqLog
                       /\ allocated' = allocated /\ nextId' = nextId)
              /\ call'.ret = "OK"
                   => /\ Len(enqLog') = Len(enqLog) + 1
                      /\ fifo' = Append(fifo, enqLog'[Len(enqLog')])
                      /\ allocated' = allocated + 1
              /\ wf => /\ haptic_process_ble_data(d, Len(d), TRUE).ret = "OK"
                       /\ Len(haptic_process_ble_data(d, Len(d), TRUE).put) = 1
                       /\ haptic_process_ble_data(d, Len(d), FALSE).ret = "ENOMEM"
                       /\ haptic_process_ble_data(d, Len(d), FALSE).put = <<>>]_vars

\* A well-formed sequence command was dropped for lack of memory while the
\* worker held one request and another was queued.
C17_Witness ==
  /\ call.ret = "ENOMEM"
  /\ call.data = <<HAPTIC_CMD_PLAY_SEQUENCE, 3, 1, 1, 1>>
  /\ workerPc = "dispatch"
  /\ Len(fifo) = 1
  /\ allocated = HeapCap

\* A thread is inside the driver, where the bus transactions are made: main
\* from its call of haptic_service_init to the return, the worker from the
\* dequeue of a request to the end of the switch.
MainInDriver == mainPc = "in_init"
WorkerInDriver == workerPc = "dispatch"

\* C18: bus transactions are never in progress on two threads at once.  Main
\* and the worker are never inside the driver together; every driver call is
\* made either by main in haptic_service_init, with the worker still at its
\* gate, or, after initialization, by the worker in its dispatch step; and a
\* step of the receive callback makes no driver call and touches no register.
C18_NoConcurrentBus ==
  /\ [](~(MainInDriver /\ WorkerInDriver))
  /\ [][/\ drv' # drv
             => IF mainPc = "running"
                  THEN WorkerInDriver /\ workerPc' = "sleep" /\ call' = call
                  ELSE MainInDriver /\ mainPc' = "running"
                       /\ workerPc = "wait_init" /\ call' = call
        /\ call' # call => (drv' = drv /\ regs' = regs)]_vars

\* The receive callback has queued a command while the worker was inside the
\* driver for an earlier one, after main had left the driver.
C18_Witness ==
  /\ WorkerInDriver
  /\ mainPc = "running"
  /\ call.op = "on_ble_data_received"
  /\ call.ret = "OK"
  /\ fifo # <<>>
  /\ fifo[Len(fifo)].id > held[1].id
  /\ drv.op = "play_sequence"

(***************************************************************************)
(* The input specification for the commands that play something, with its *)
(* scheduling: the worker's steps are taken when they stay possible (see   *)
(* SpecLive).                                                              *)
(***************************************************************************)
InitPlay == InitInput /\ input \in PlayBuffers

SpecInputLive ==
  /\ InitPlay /\ [][NextInput]_vars
  /\ WF_vars(WorkerGet)
  /\ WF_vars(WorkerDispatch)
  /\ WF_vars(WorkerSleep)

\* The buffer was decoded to a play request of at most eight effects, which
\* is now queued, held or dispatched.
PlayDecoded ==
  /\ call.op = "haptic_process_ble_data"
  /\ call.ret = "OK"
  /\ enqLog[1].type \in {"SINGLE_EFFECT", "SEQUENCE"}
  /\ enqLog[1].len <= DRV2605L_MAX_WAVEFORM_SEQ

\* The worker has dispatched the decoded request and the bus record of its
\* driver call is exactly the writes for the request's effects, unless the
\* bus failed.
PlayedAsDecoded ==
  /\ PlayDecoded
  /\ dispatched = enqLog
  /\ drv.op \in {"play_effect", "play_sequence"}
  /\ AllOk(drv.bus) => (drv.ret = "OK" /\ drv.bus = Done(PlayWrites(enqLog[1].data)))

\* C19: a buffer that decodes to a play request with effects e_1..e_k, k <= 8,
\* is eventually played by the worker with exactly the writes slot i = e_i
\* for i in 1..k, terminator 0 in slot k+1 if k < 8, then go = 1 once, when
\* the bus does not fail.  [0x03, 0x00] gives slot 1 = 4, slot 2 = 0, go;
\* [0x02, 0x03, 0x01, 0x01, 0x01] gives slots 1..3 = 1, slot 4 = 0, go.
C19_EndToEnd ==
  /\ PlayDecoded ~> PlayedAsDecoded
  /\ []((PlayDecoded /\ dispatched # <<>> /\ AllOk(drv.bus))
          => /\ input = <<3, 0>>
                  => drv.bus = Done(<< W(4, 4), W(5, 0), W(12, 1) >>)
             /\ input = <<2, 3, 1, 1, 1>>
                  => drv.bus = Done(<< W(4, 1), W(5, 1), W(6, 1), W(7, 0),
                                       W(12, 1) >>))

\* The worker has played the three strong clicks of [0x02, 0x03, 1, 1, 1].
C19_Witness ==
  /\ input = <<2, 3, 1, 1, 1>>
  /\ PlayDecoded
  /\ dispatched # <<>>
  /\ drv.ret = "OK"
  /\ regs[DRV2605L_REG_GO] = 1

\* C20: drv2605l_play_effect on an initialized driver with a valid id makes
\* exactly three register writes, in this order: slot 1 = id, slot 2 = 0,
\* go = 1 (a failing bus cuts the list short), and returns 0.  It makes no
\* read, so it does not poll the device: it returns with the go bit it has
\* just set still set.
C20_PlayEffectWrites ==
  [][(ndrv' # ndrv /\ drv'.op = "play_effect" /\ initialized
        /\ ValidId(drv'.args[1]))
       => LET three == << W(DRV2605L_REG_WAVESEQ1, drv'.args[1]),
                          W(DRV2605L_REG_WAVESEQ2, 0),
                          W(DRV2605L_REG_GO, 1) >>
          IN  /\ StartsAs(drv'.bus, three)
              /\ \A i \in 1..Len(drv'.bus) : drv'.bus[i].op = "w"
              /\ AllOk(drv'.bus)
                   => /\ drv'.bus = Done(three)
                      /\ drv'.ret = "OK"
                      /\ regs'[DRV2605L_REG_WAVESEQ1] = drv'.args[1]
                      /\ regs'[DRV2605L_REG_WAVESEQ2] = 0
                      /\ regs'[DRV2605L_REG_GO] = 1]_vars

\* Effect 123 was played on an LRA driver and the device is still playing it.
C20_Witness ==
  /\ drv.op = "play_effect"
  /\ drv.args = <<123>>
  /\ drv.ret = "OK"
  /\ motor_type = "LRA"
  /\ Len(drv.bus) = 3
  /\ regs[DRV2605L_REG_GO] = 1

(***************************************************************************)
(* Properties of the status query, the calibration and the initialization. *)
(***************************************************************************)
\* This step is a call of the driver function op.
DrvCalls(op) == ndrv' # ndrv /\ drv'.op = op

\* C21: a drv2605l_is_playing call whose register read succeeds returns false
\* when it directly follows a successful drv2605l_init on a device at rest
\* (go register 0), and returns true when it follows a successful
\* drv2605l_play_effect and the device has not yet cleared the go bit.
C21_IsPlayingAfterInitAndPlay ==
  [][(DrvCalls("is_playing") /\ AllOk(drv'.bus) /\ drv.ret = "OK")
       => /\ (drv.op = "init" /\ regs[DRV2605L_REG_GO] = 0)
               => drv'.ret = "false"
          /\ (drv.op = "play_effect" /\ regs[DRV2605L_REG_GO] % 2 = 1)
               => drv'.ret = "true"
          /\ (drv.op = "play_effect" /\ regs[DRV2605L_REG_GO] % 2 = 0)
               => drv'.ret = "false"]_vars

\* Effect 123 was played and the query that followed, while the device was
\* still playing, returned true.
C21_Witness ==
  /\ ndrv = 2
  /\ drv.op = "is_playing"
  /\ drv.ret = "true"
  /\ regs[DRV2605L_REG_WAVESEQ1] = 123
  /\ regs[DRV2605L_REG_WAVESEQ2] = 0
  /\ regs[DRV2605L_REG_GO] = 1

\* C22: drv2605l_is_playing is a best-effort query.  It returns true or
\* false, and true exactly when the driver is initialized, its one read of
\* the go register succeeds and the low bit of the value read is set; when
\* uninitialized it makes no bus transaction; it makes no write and leaves
\* the device registers and the driver state as they were.
C22_IsPlayingBestEffort ==
  [][DrvCalls("is_playing")
       => LET bus == drv'.bus IN
          /\ drv'.ret \in {"true", "false"}
          /\ drv'.ret = "true"
               <=> /\ initialized
                   /\ Len(bus) = 1
                   /\ bus[1] = [op |-> "r", reg |-> DRV2605L_REG_GO,
                                val |-> regs[DRV2605L_REG_GO], ok |-> TRUE]
                   /\ regs[DRV2605L_REG_GO] % 2 = 1
          /\ ~initialized => bus = <<>>
          /\ initialized => (Len(bus) = 1 /\ bus[1].reg = DRV2605L_REG_GO)
          /\ \A i \in 1..Len(bus) : bus[i].op = "r"
          /\ regs' = regs
          /\ initialized' = initialized
          /\ motor_type' = motor_type]_vars

\* The device was playing and the read of the go register failed: the query
\* returned false.
C22_Witness ==
  /\ drv.op = "is_playing"
  /\ drv.ret = "false"
  /\ initialized
  /\ Len(drv.bus) = 1
  /\ ~drv.bus[1].ok
  /\ regs[DRV2605L_REG_GO] = 1

\* The values drv2605l_auto_calibrate read from the go register, poll by poll.
Polls(bus) ==
  LET idx == {i \in 1..Len(bus) : bus[i].op = "r" /\ bus[i].reg = DRV2605L_REG_GO}
  IN  [k \in 1..Cardinality(idx) |-> bus[2 + k].val]

\* The last driver call was drv2605l_auto_calibrate on an initialized LRA
\* driver and no bus transaction failed.
Calibrated ==
  /\ drv.op = "auto_calibrate"
  /\ initialized
  /\ motor_type = "LRA"
  /\ AllOk(drv.bus)

\* C23 as stated: drv2605l_auto_calibrate polls the go register at most 100
\* times and returns -ETIMEDOUT exactly when the go bit was set on every one
\* of 100 polls; when a poll within the bound, the 100th included, reads the
\* bit clear, it does not time out and goes on to read the status register.
C23_TimeoutOnlyIfNeverClear ==
  Calibrated
    => LET polls == Polls(drv.bus)
           stuck == Len(polls) = AUTOCAL_TIMEOUT
                      /\ \A k \in 1..Len(polls) : polls[k] % 2 = 1
       IN  /\ Len(polls) <= AUTOCAL_TIMEOUT
           /\ drv.ret = "ETIMEDOUT" <=> stuck
           /\ ~stuck => drv.bus[Len(drv.bus)].reg # DRV2605L_REG_GO

\* C24 as stated: when a poll within the bound reads the go bit clear,
\* drv2605l_auto_calibrate reads the status register; with the diagnostic bit
\* (0x08) set it returns -EIO, otherwise it writes internal-trigger to the
\* mode register and returns 0, so the mode register then holds 0.  On a
\* driver initialized as ERM it returns -ENOTSUP with no bus transaction.
C24_CalibrationResult ==
  /\ (Calibrated /\ \E k \in 1..Len(Polls(drv.bus)) : Polls(drv.bus)[k] % 2 = 0)
       => LET n == Len(Polls(drv.bus))
              bus == drv.bus
          IN  /\ Len(bus) >= 3 + n
              /\ bus[3 + n].op = "r" /\ bus[3 + n].reg = DRV2605L_REG_STATUS
              /\ IF (bus[3 + n].val \div 8) % 2 = 1
                   THEN drv.ret = "EIO" /\ Len(bus) = 3 + n
                   ELSE /\ drv.ret = "OK"
                        /\ Len(bus) = 4 + n
                        /\ bus[4 + n] = [op |-> "w", reg |-> DRV2605L_REG_MODE,
                                         val |-> DRV2605L_MODE_INTTRIG, ok |-> TRUE]
                        /\ regs[DRV2605L_REG_MODE] = DRV2605L_MODE_INTTRIG
  /\ (drv.op = "auto_calibrate" /\ initialized /\ motor_type = "ERM")
       => (drv.ret = "ENOTSUP" /\ drv.bus = <<>>)

(***************************************************************************)
(* The worker specification: queue_haptic_data is called with any request  *)
(* it accepts or refuses, not only with those the decoder builds, after a  *)
(* successful haptic_service_init; the worker serves the queue.            *)
(***************************************************************************)
\* Requests of every type of haptic_pattern_type_t and of a value outside it,
\* with and without data.
RawRequests ==
  { [type |-> "SINGLE_EFFECT", data |-> <<14>>, len |-> 1],
    [type |-> "SINGLE_EFFECT", data |-> <<200>>, len |-> 1],
    [type |-> "SINGLE_EFFECT", data |-> <<>>, len |-> 0],
    [type |-> "SEQUENCE", data |-> <<1, 1, 1>>, len |-> 3],
    [type |-> "SEQUENCE", data |-> <<>>, len |-> 0],
    [type |-> "SEQUENCE", data |-> NULL, len |-> 0],
    [type |-> "CUSTOM", data |-> <<9, 9>>, len |-> 2],
    [type |-> "UNKNOWN", data |-> <<>>, len |-> 0],
    [type |-> "STOP", data |-> <<>>, len |-> 0],
    [type |-> "SEQUENCE", data |-> Fill(HAPTIC_MAX_DATA_SIZE + 1, 1),
     len |-> HAPTIC_MAX_DATA_SIZE + 1] }

QueueAny ==
  /\ nextId <= MaxEnq
  /\ \E req \in RawRequests, m \in MallocOutcomes :
       Produce([op |-> "queue_haptic_data", data |-> req.data, len |-> req.len,
                route |-> "direct"],
               queue_haptic_data(req.type, req.data, req.len, m))
  /\ UNCHANGED <<thrVars, drvVars, ndrv, input>>

InitWorker == InitInput /\ input = <<>>

NextWorker ==
  \/ QueueAny
  \/ WorkerGet
  \/ WorkerDispatch
  \/ WorkerSleep
  \/ DeviceDone

SpecWorker == InitWorker /\ [][NextWorker]_vars

\* This step is a dequeue: the worker takes a request off the queue.
Dequeues == held = <<>> /\ held' # <<>>

\* C25: after every dequeued request, whatever its kind and whether the
\* driver call succeeded, failed or was skipped, the worker performs the
\* pacing delay before its next dequeue.  A dequeue is made only from the
\* head of the loop and leads to the switch; the switch, however it ends,
\* leads to the delay; during the delay nothing is dequeued; and the delay
\* leads back to the head of the loop.
C25_PacingDelay ==
  [][/\ Dequeues => (workerPc = "get" /\ workerPc' = "dispatch")
     /\ (workerPc = "dispatch" /\ workerPc' # workerPc)
          => (workerPc' = "sleep" /\ ~Dequeues)
     /\ workerPc = "sleep" => ~Dequeues
     /\ (workerPc = "sleep" /\ workerPc' # workerPc) => workerPc' = "get"]_vars

\* The worker is in the pacing delay after a request for which it made no
\* driver call, after one whose driver call failed, and the next request is
\* waiting in the queue.
C25_Witness ==
  /\ workerPc = "sleep"
  /\ Len(dispatched) = 2
  /\ dispatched[1].data = <<200>>
  /\ drv.ret = "EINVAL"
  /\ dispatched[2].type = "CUSTOM"
  /\ fifo # <<>>

\* C26: drv2605l_init starts with one read of the status register, its only
\* read, and returns 0 exactly when that read and every register write after
\* it succeeded (eight writes for ERM, six for LRA); it has then set
\* initialized and recorded the motor type.  At the first failing
\* transaction it returns the error at once, with no further transaction,
\* and leaves initialized as it was: false if the driver was not
\* initialized before, as on a first call.
C26_InitProbeAndResult ==
  [][DrvCalls("init")
       => LET bus == drv'.bus
              type == drv'.args[1]
          IN  /\ bus = <<>> => (drv'.ret = "ENODEV" /\ regs' = regs)
              /\ bus # <<>>
                   => /\ bus[1].op = "r" /\ bus[1].reg = DRV2605L_REG_STATUS
                      /\ \A i \in 2..Len(bus) : bus[i].op = "w"
                      /\ \A i \in 1..(Len(bus) - 1) : bus[i].ok
              /\ drv'.ret = "OK"
                   <=> /\ bus # <<>> /\ AllOk(bus)
                       /\ Len(bus) = (IF type = "ERM" THEN 9 ELSE 7)
              /\ drv'.ret = "OK" => (initialized' /\ motor_type' = type)
              /\ drv'.ret # "OK"
                   => /\ initialized' = initialized
                      /\ bus # <<>> => (drv'.ret = "I2C_ERR" /\ ~bus[Len(bus)].ok)
                      /\ \A a \in Regs :
                           regs'[a] # regs[a]
                             => \E i \in 1..Len(bus) :
                                  bus[i].ok /\ bus[i].op = "w" /\ bus[i].reg = a]_vars

\* A first drv2605l_init, for LRA, failed at its fourth write: the library
\* and feedback registers are written and initialized is still false.
C26_Witness ==
  /\ ndrv = 1
  /\ drv.op = "init"
  /\ drv.args = <<"LRA">>
  /\ drv.ret = "I2C_ERR"
  /\ Len(drv.bus) = 5
  /\ ~initialized
  /\ regs[DRV2605L_REG_FEEDBACK] = 128
  /\ regs[DRV2605L_REG_CONTROL1] = 0

\* The registers written by a call, in bus order, with the values written.
Written(bus) ==
  LET ws == SelectSeq(bus, LAMBDA t : t.op = "w") IN
  [i \in 1..Len(ws) |-> <<ws[i].reg, ws[i].val>>]

\* The registers a call wrote or tried to write.
WriteRegs(bus) == {bus[i].reg : i \in {j \in 1..Len(bus) : bus[j].op = "w"}}

\* C27 (as the code has it): a drv2605l_init for LRA that succeeds writes the
\* mode, the library selection (LRA library), the feedback register (0x80)
\* and the three control registers, with the same control values as for ERM;
\* only the rated-voltage and overdrive-clamp registers are written in the
\* ERM case alone, and a successful ERM init writes both.
C27_LraInitWrites ==
  [][DrvCalls("init")
       => LET bus == drv'.bus
              type == drv'.args[1]
          IN  /\ (type = "LRA" /\ drv'.ret = "OK")
                   => Written(bus) = << <<DRV2605L_REG_MODE, DRV2605L_MODE_INTTRIG>>,
                                        <<DRV2605L_REG_LIBRARY, DRV2605L_LIB_LRA>>,
                                        <<DRV2605L_REG_FEEDBACK, 128>>,
                                        <<DRV2605L_REG_CONTROL1, 147>>,
                                        <<DRV2605L_REG_CONTROL2, 245>>,
                                        <<DRV2605L_REG_CONTROL3, 160>> >>
              /\ (type = "ERM" /\ drv'.ret = "OK")
                   => Written(bus) = << <<DRV2605L_REG_MODE, DRV2605L_MODE_INTTRIG>>,
                                        <<DRV2605L_REG_LIBRARY, DRV2605L_LIB_ERM>>,
                                        <<DRV2605L_REG_FEEDBACK, 0>>,
                                        <<DRV2605L_REG_RATEDV, 144>>,
                                        <<DRV2605L_REG_CLAMPV, 255>>,
                                        <<DRV2605L_REG_CONTROL1, 147>>,
                                        <<DRV2605L_REG_CONTROL2, 245>>,
                                        <<DRV2605L_REG_CONTROL3, 160>> >>
              /\ type = "LRA"
                   => WriteRegs(bus) \cap {DRV2605L_REG_RATEDV, DRV2605L_REG_CLAMPV} = {}]_vars

\* A drv2605l_init for LRA succeeded and its last three writes went to the
\* control registers.
C27_Witness ==
  /\ drv.op = "init"
  /\ drv.args = <<"LRA">>
  /\ drv.ret = "OK"
  /\ Len(drv.bus) = 7
  /\ drv.bus[5].reg = DRV2605L_REG_CONTROL1
  /\ drv.bus[7].reg = DRV2605L_REG_CONTROL3
  /\ regs[DRV2605L_REG_CONTROL3] = 160

\* C27 as claimed: for LRA drv2605l_init writes only the mode, library and
\* feedback registers; the rated-voltage, overdrive-clamp and control
\* registers are written only for ERM.
C27_Original ==
  [][(DrvCalls("init") /\ drv'.args = <<"LRA">>)
       => WriteRegs(drv'.bus) \subseteq
            {DRV2605L_REG_MODE, DRV2605L_REG_LIBRARY, DRV2605L_REG_FEEDBACK}]_vars

(***************************************************************************)
(* Properties of the routing in main.c and of the requests the worker      *)
(* skips.                                                                  *)
(***************************************************************************)
\* The receive callback has run in this step.
BleCalled ==
  /\ call'.op = "on_ble_data_received"
  /\ <<call, enqLog>>' # <<call, enqLog>>

\* C28: on_ble_data_received routes each received buffer to exactly one
\* destination by its first byte.  A first byte in 0x01..0x04 goes to
\* haptic_process_ble_data and never to the UART, whatever the decoder
\* returns; any other first byte goes to the UART and puts nothing on the
\* haptic queue; a zero-length buffer goes to neither.
C28_RoutingByFirstByte ==
  [][BleCalled
       => LET data == call'.data
              untouched == /\ fifo' = fifo
                           /\ enqLog' = enqLog
                           /\ allocated' = allocated
                           /\ call'.ret = "none"
          IN  /\ call'.route \in {"none", "haptic", "uart"}
              /\ Len(data) = 0 => (call'.route = "none" /\ untouched)
              /\ (Len(data) > 0 /\ data[1] \in 1..4)
                   => /\ call'.route = "haptic"
                      /\ call'.ret \in {"OK", "EINVAL", "ENOMEM", "ENOTSUP"}
                      /\ call'.ret # "OK" => (fifo' = fifo /\ enqLog' = enqLog)
              /\ (Len(data) > 0 /\ data[1] \notin 1..4)
                   => (call'.route = "uart" /\ untouched)]_vars

\* A haptic command whose decoding failed (effect id 124) went to the
\* haptic service and not to the UART.
C28_Witness ==
  /\ call.op = "on_ble_data_received"
  /\ call.data = <<HAPTIC_CMD_PLAY_EFFECT, 124>>
  /\ call.route = "haptic"
  /\ call.ret = "EINVAL"
  /\ enqLog = <<>>

\* C29 as stated: a 0 entry among the ids drv2605l_play_sequence looks at
\* terminates the sequence: the valid ids before it are programmed, the
\* terminator and the go bit are written, and the call returns 0 (the bus
\* did not fail).
C29_ZeroTerminates ==
  (SeqCalled /\ AllOk(drv.bus))
    => \A k \in 2..Len(Kept) :
         (Kept[k] = 0 /\ \A i \in 1..(k - 1) : ValidId(Kept[i]))
           => /\ drv.ret = "OK"
              /\ drv.bus = Done(PlayWrites(SubSeq(Kept, 1, k - 1)))

\* Request h is one the switch makes no driver call for: kind Custom, or
\* kind Sequence with no effects.
Skipped(h) == h.type = "CUSTOM" \/ (h.type = "SEQUENCE" /\ h.len = 0)

\* C30: when the dequeued request is of kind Custom, or of kind Sequence with
\* zero effects, the switch makes no driver call and no bus transaction: the
\* driver's last call and the device registers are as before.  The worker
\* still frees the request and goes to the pacing delay, from which it
\* returns to the head of the loop, where the next dequeue takes the head of
\* the queue.
C30_SkippedRequests ==
  [][/\ (workerPc = "dispatch" /\ workerPc' # workerPc /\ Skipped(held[1]))
          => /\ drv' = drv
             /\ regs' = regs
             /\ initialized' = initialized
             /\ held' = <<>>
             /\ allocated' = allocated - 1
             /\ dispatched' = Append(dispatched, held[1])
             /\ fifo' = fifo
             /\ workerPc' = "sleep"
     /\ (workerPc = "sleep" /\ workerPc' # workerPc)
          => (workerPc' = "get" /\ UNCHANGED <<fifo, held, drv, regs>>)
     /\ Dequeues => (fifo # <<>> /\ held' = <<Head(fifo)>> /\ fifo' = Tail(fifo))]_vars

\* A Custom request and a Sequence request with zero effects have been
\* dispatched and freed without any driver call (the driver's last call is
\* still drv2605l_init), and the worker has taken the next request, a stop,
\* off the queue.
C30_Witness ==
  /\ Len(dispatched) = 2
  /\ dispatched[1].type = "CUSTOM"
  /\ dispatched[2].type = "SEQUENCE"
  /\ dispatched[2].len = 0
  /\ drv.op = "init"
  /\ workerPc = "dispatch"
  /\ held # <<>>
  /\ held[1].type = "STOP"
  /\ allocated = 1

(***************************************************************************)
(* Properties of the queue contents, the heap and the worker's progress.   *)
(***************************************************************************)
\* The effects handed to haptic_play_sequence by the last producer call:
\* <<effects>> for a direct call and for a 0x02 command whose buffer holds
\* the N ids it announces, <<>> when haptic_play_sequence was not reached.
SeqGiven ==
  IF call.op = "haptic_play_sequence" /\ call.data # NULL
    THEN << call.data >>
  ELSE IF /\ call.op = "haptic_process_ble_data"
          /\ call.data # NULL
          /\ call.len >= 2
          /\ call.data[1] = HAPTIC_CMD_PLAY_SEQUENCE
          /\ call.len >= 2 + call.data[2]
    THEN << SubSeq(call.data, 3, 2 + call.data[2]) >>
  ELSE <<>>

\* C31: haptic_play_sequence, called directly or by the 0x02 command, with
\* more than 32 effects does not fail for the count: it looks at the first
\* 32 only, returns -EINVAL queueing nothing when one of them is outside
\* 1..123, and otherwise queues a Sequence of exactly the first 32 in order
\* (allocation succeeding).  No queued request has more than 32 effects.
C31_TruncatesTo32 ==
  /\ \A i \in 1..Len(enqLog) :
       enqLog[i].len <= HAPTIC_MAX_DATA_SIZE /\ Len(enqLog[i].data) = enqLog[i].len
  /\ (SeqGiven # <<>> /\ call.ret # "ENOMEM")
       => LET effs == SeqGiven[1]
              first == SubSeq(effs, 1, HAPTIC_MAX_DATA_SIZE)
          IN  Len(effs) > HAPTIC_MAX_DATA_SIZE
                => /\ call.ret = "OK" <=> \A i \in 1..Len(first) : ValidId(first[i])
                   /\ call.ret = "OK" => enqLog = << Req("SEQUENCE", first) >>
                   /\ call.ret # "OK" => (call.ret = "EINVAL" /\ enqLog = <<>>)

\* A direct call with 33 effects, the 33rd invalid, queued the first 32.
C31_Witness ==
  /\ call.op = "haptic_play_sequence"
  /\ call.len = HAPTIC_MAX_DATA_SIZE + 1
  /\ call.data[HAPTIC_MAX_DATA_SIZE + 1] = 0
  /\ call.ret = "OK"
  /\ enqLog # <<>>
  /\ enqLog[1].data = Fill(HAPTIC_MAX_DATA_SIZE, 4)

\* C32: when haptic_service_init has succeeded and the worker thread is
\* scheduled fairly (every driver call returns: it is one step), every
\* request that was enqueued is eventually dequeued and dispatched.  The
\* dispatched requests are always the first of those enqueued, in order, and
\* are never taken back; and again and again the worker has caught up: all
\* the requests enqueued so far have been dispatched and the queue is empty.
C32_EventuallyDispatched ==
  /\ [][/\ Len(dispatched') >= Len(dispatched)
        /\ dispatched' = SubSeq(enqLog', 1, Len(dispatched'))]_vars
  /\ []<>(initialized => (dispatched = enqLog /\ fifo = <<>> /\ held = <<>>))

\* Initialization succeeded, as many requests as the model allows were
\* enqueued, and all of them have been dispatched and freed.
C32_Witness ==
  /\ initialized
  /\ Len(enqLog) = MaxEnq
  /\ dispatched = enqLog
  /\ fifo = <<>>
  /\ held = <<>>
  /\ allocated = 0

\* haptic_service_init has returned an error: main is past it and the driver
\* is not initialized.
InitFailed == mainPc = "running" /\ ~initialized

\* C33: when haptic_service_init has failed, the readiness semaphore is never
\* given and the worker stays blocked at the gate for ever, having dequeued
\* nothing and making no driver call and no bus transaction.  Producers
\* still enqueue: every request enqueued is still allocated and in the
\* queue, the queue only grows, and it stops growing when the heap is
\* exhausted and the allocation fails.
C33_InitFailureStrandsQueue ==
  /\ [](InitFailed
          => /\ sem = 0
             /\ workerPc = "wait_init"
             /\ held = <<>>
             /\ dispatched = <<>>
             /\ fifo = enqLog
             /\ allocated = Len(fifo)
             /\ Len(fifo) <= HeapCap
             /\ drv.op = "init" /\ drv.ret # "OK")
  /\ [][InitFailed
          => /\ InitFailed'
             /\ drv' = drv
             /\ regs' = regs
             /\ fifo' # fifo
                  => /\ Len(fifo) < HeapCap
                     /\ call'.ret = "OK"
                     /\ fifo' = Append(fifo, enqLog'[Len(enqLog')])
             /\ (Len(fifo) = HeapCap /\ call' # call)
                  => call'.ret \in {"none", "EINVAL", "ENOTSUP", "ENOMEM"}]_vars

\* drv2605l_init failed on the bus, the requests enqueued since fill the
\* heap, the last enqueue failed for lack of memory, and the worker still
\* waits at the gate.
C33_Witness ==
  /\ InitFailed
  /\ drv.ret = "I2C_ERR"
  /\ Len(fifo) = HeapCap
  /\ allocated = HeapCap
  /\ call.ret = "ENOMEM"
  /\ workerPc = "wait_init"
  /\ dispatched = <<>>

\* C34: request buffers are neither leaked nor freed twice.  The buffers
\* allocated and not freed are those in the queue plus at most one held by
\* the worker, each is a different buffer, and none of them has been
\* dispatched; a buffer is freed only by the worker's dispatch step, one at a
\* time, and it is the held one, which goes to the dispatched record, where
\* no buffer appears twice; and a producer call that fails (enqueue or
\* decode) allocates nothing.
C34_NoLeakNoDoubleFree ==
  /\ [](/\ allocated = Len(fifo) + Len(held)
        /\ Len(held) <= 1
        /\ Cardinality(Ids(fifo \o held)) = Len(fifo) + Len(held)
        /\ Ids(fifo \o held) \cap Ids(dispatched) = {}
        /\ Cardinality(Ids(dispatched)) = Len(dispatched)
        /\ Len(enqLog) = Len(dispatched) + allocated)
  /\ [][/\ allocated' < allocated
             => /\ allocated' = allocated - 1
                /\ workerPc = "dispatch"
                /\ held # <<>> /\ held' = <<>>
                /\ dispatched' = Append(dispatched, held[1])
        /\ dispatched' # dispatched => allocated' = allocated - 1
        /\ (call' # call /\ call'.ret # "OK")
             => (allocated' = allocated /\ fifo' = fifo)]_vars

\* One request was dispatched with a failed driver call and freed, the
\* worker holds the next one, and the last command failed to decode: one
\* buffer is allocated.
C34_Witness ==
  /\ Len(dispatched) = 1
  /\ drv.ret = "I2C_ERR"
  /\ held # <<>>
  /\ fifo = <<>>
  /\ call.ret = "EINVAL"
  /\ allocated = 1

(***************************************************************************)
(* More properties of the driver.                                          *)
(***************************************************************************)
\* This step is a call of drv2605l_play_effect or drv2605l_play_sequence.
PlayCalls == DrvCalls("play_effect") \/ DrvCalls("play_sequence")

\* C35: in drv2605l_play_effect and drv2605l_play_sequence the go trigger is
\* written only after every slot write of the call succeeded.  A transaction
\* that fails is the last of the call and the call returns its error; the
\* write of the go register is the last transaction, carries 1 and follows
\* successful writes to waveform slots only; and a call that does not return
\* 0 leaves the go register as it was.
C35_GoOnlyAfterSlots ==
  [][PlayCalls
       => LET bus == drv'.bus IN
          /\ \A i \in 1..Len(bus) :
               /\ ~bus[i].ok => (i = Len(bus) /\ drv'.ret = "I2C_ERR")
               /\ bus[i].reg = DRV2605L_REG_GO
                    => /\ i = Len(bus)
                       /\ bus[i].op = "w" /\ bus[i].val = 1
                       /\ \A j \in 1..(i - 1) :
                            bus[j].ok /\ bus[j].op = "w" /\ bus[j].reg \in SlotRegs
          /\ drv'.ret = "OK"
               => (bus # <<>> /\ AllOk(bus) /\ bus[Len(bus)].reg = DRV2605L_REG_GO)
          /\ drv'.ret # "OK" => regs'[DRV2605L_REG_GO] = regs[DRV2605L_REG_GO]]_vars

\* drv2605l_play_sequence for seven effects failed at its fourth slot write:
\* three slots are programmed and playback was not triggered.
C35_Witness ==
  /\ drv.op = "play_sequence"
  /\ drv.args[2] = 7
  /\ drv.ret = "I2C_ERR"
  /\ Len(drv.bus) = 4
  /\ ~drv.bus[4].ok
  /\ regs[DRV2605L_REG_WAVESEQ1 + 2] = 7
  /\ regs[DRV2605L_REG_GO] = 0

\* The sequence the device plays from registers r: the waveform slots from
\* slot 1 up to the first slot holding 0, or all eight.
Effective(r) ==
  LET zs == {i \in 1..DRV2605L_MAX_WAVEFORM_SEQ : r[DRV2605L_REG_WAVESEQ1 + (i - 1)] = 0}
      n == IF zs = {} THEN DRV2605L_MAX_WAVEFORM_SEQ
           ELSE (CHOOSE i \in zs : \A j \in zs : i <= j) - 1
  IN  [i \in 1..n |-> r[DRV2605L_REG_WAVESEQ1 + (i - 1)]]

\* C36: after a successful drv2605l_play_effect or drv2605l_play_sequence,
\* whatever calls came before it, the effective hardware sequence is the
\* first min(k, 8) effects of that call: ids an earlier, longer sequence left
\* in higher slots are behind a terminator.
C36_EffectiveSequence ==
  /\ (drv.op = "play_effect" /\ drv.ret = "OK")
       => Effective(regs) = << drv.args[1] >>
  /\ (drv.op = "play_sequence" /\ drv.ret = "OK")
       => Effective(regs) = Kept

\* A single effect was played after a sequence of seven: slots 3 to 7 still
\* hold ids of the sequence, behind the terminator in slot 2.
C36_Witness ==
  /\ ndrv = 2
  /\ drv.op = "play_effect"
  /\ drv.ret = "OK"
  /\ regs[DRV2605L_REG_WAVESEQ1 + 1] = 0
  /\ regs[DRV2605L_REG_WAVESEQ1 + 2] = 7
  /\ regs[DRV2605L_REG_WAVESEQ1 + 6] = 52
  /\ Effective(regs) = << drv.args[1] >>

\* Request q is well formed: a single effect of length 1, a sequence of 1 to
\* 32 effects or a stop of length 0, with every effect id in 1..123.
WellFormedRequest(q) ==
  /\ \/ q.type = "SINGLE_EFFECT" /\ q.len = 1
     \/ q.type = "SEQUENCE" /\ q.len >= 1 /\ q.len <= HAPTIC_MAX_DATA_SIZE
     \/ q.type = "STOP" /\ q.len = 0
  /\ Len(q.data) = q.len
  /\ \A k \in 1..Len(q.data) : ValidId(q.data[k])

\* C37: every request put on the queue through the functions of
\* haptic_service.h is well formed.  So the worker makes a driver call for
\* every request it dispatches (its Custom, empty-sequence and unknown-type
\* branches are not taken), and that call is never rejected by the driver's
\* validation: it returns 0 or a bus error.
C37_QueuedRequestsWellFormed ==
  /\ [](\A i \in 1..Len(enqLog) : WellFormedRequest(enqLog[i]))
  /\ [](\A i \in 1..Len(fifo \o held) : WellFormedRequest((fifo \o held)[i]))
  /\ [][(workerPc = "dispatch" /\ workerPc' # workerPc)
          => /\ drv'.op = (CASE held[1].type = "SINGLE_EFFECT" -> "play_effect"
                             [] held[1].type = "SEQUENCE" -> "play_sequence"
                             [] OTHER -> "stop")
             /\ drv'.args = (CASE held[1].type = "SINGLE_EFFECT" -> <<held[1].data[1]>>
                               [] held[1].type = "SEQUENCE" -> <<held[1].data, held[1].len>>
                               [] OTHER -> <<>>)
             /\ drv'.ret \in {"OK", "I2C_ERR"}]_vars

\* The longest predefined pattern was queued by haptic_play_pattern as a
\* sequence and the worker's driver call for it succeeded.
C37_Witness ==
  /\ call.op = "haptic_play_pattern"
  /\ call.ret = "OK"
  /\ dispatched # <<>>
  /\ dispatched[1].type = "SEQUENCE"
  /\ \A p \in 1..Len(predefined_patterns) :
       Len(predefined_patterns[p]) <= dispatched[1].len
  /\ drv.op = "play_sequence"
  /\ drv.ret = "OK"

\* C38: the driver state is changed by drv2605l_init only.  A step that
\* changes initialized or motor_type is a call of drv2605l_init; the play,
\* stop, standby, wakeup, is-playing and calibration calls leave both as
\* they were, whatever they return; and once initialized is true it stays
\* true, also through a later drv2605l_init that fails.
C38_DriverStateFrame ==
  [][/\ (initialized' # initialized \/ motor_type' # motor_type)
          => DrvCalls("init")
     /\ (ndrv' # ndrv /\ drv'.op # "init")
          => (initialized' = initialized /\ motor_type' = motor_type)
     /\ initialized => initialized']_vars

\* A second drv2605l_init, for LRA, failed on the bus after the driver had
\* been initialized for ERM: initialized is still true.
C38_Witness ==
  /\ initialized
  /\ drv.op = "init"
  /\ drv.args = <<"LRA">>
  /\ drv.ret = "I2C_ERR"
  /\ regs[DRV2605L_REG_RATEDV] = 144

\* C39: when drv2605l_auto_calibrate has written the auto-calibration mode
\* and then fails (timeout, diagnostic bit set, or a bus error), it returns
\* without writing the mode register again: the device is left in
\* auto-calibration mode (7), where a successful calibration leaves it in
\* internal-trigger mode.  drv2605l_play_effect and drv2605l_play_sequence
\* write no mode: they trigger go in whatever mode the device is in.
C39_FailedCalibrationLeavesMode ==
  [][/\ (DrvCalls("auto_calibrate") /\ drv'.bus # <<>>)
          => LET bus == drv'.bus IN
             /\ bus[1].op = "w" /\ bus[1].reg = DRV2605L_REG_MODE
             /\ bus[1].val = DRV2605L_MODE_AUTOCAL
             /\ (bus[1].ok /\ drv'.ret # "OK")
                  => /\ drv'.ret \in {"ETIMEDOUT", "EIO", "I2C_ERR"}
                     /\ regs'[DRV2605L_REG_MODE] = DRV2605L_MODE_AUTOCAL
                     /\ \A i \in 2..Len(bus) :
                          ~(bus[i].ok /\ bus[i].op = "w" /\ bus[i].reg = DRV2605L_REG_MODE)
             /\ drv'.ret = "OK" => regs'[DRV2605L_REG_MODE] = DRV2605L_MODE_INTTRIG
     /\ PlayCalls
          => /\ regs'[DRV2605L_REG_MODE] = regs[DRV2605L_REG_MODE]
             /\ \A i \in 1..Len(drv'.bus) : drv'.bus[i].reg # DRV2605L_REG_MODE]_vars

\* After a calibration that failed, an effect was played with success while
\* the device was still in auto-calibration mode.
C39_Witness ==
  /\ ndrv = 2
  /\ drv.op = "play_effect"
  /\ drv.ret = "OK"
  /\ motor_type = "LRA"
  /\ regs[DRV2605L_REG_MODE] = DRV2605L_MODE_AUTOCAL
  /\ regs[DRV2605L_REG_GO] = 1

\* C40: the register addresses of drv2605l_play_sequence stay inside the
\* waveform bank, for every count up to 255.  The call only writes; the i-th
\* effect goes to slot i, one of the eight slots 0x04..0x0B; the terminator 0
\* is written only when count < 8, at 0x04 + count; and the go register 0x0C
\* is written only with 1, never with the terminator or an effect id.
C40_SlotAddressing ==
  /\ [](/\ DRV2605L_REG_WAVESEQ1 = 4
        /\ SlotRegs = 4..11
        /\ DRV2605L_REG_GO = 12)
  /\ [][DrvCalls("play_sequence")
          => LET bus == drv'.bus
                 count == drv'.args[2]
             IN  /\ \A i \in 1..Len(bus) :
                      /\ bus[i].op = "w"
                      /\ bus[i].reg \in SlotRegs \cup {DRV2605L_REG_GO}
                      /\ bus[i].reg = DRV2605L_REG_GO => bus[i].val = 1
                      /\ (bus[i].reg \in SlotRegs /\ bus[i].val # 0)
                           => /\ i <= DRV2605L_MAX_WAVEFORM_SEQ
                              /\ bus[i].reg = DRV2605L_REG_WAVESEQ1 + (i - 1)
                              /\ bus[i].val = drv'.args[1][i]
                      /\ (bus[i].reg \in SlotRegs /\ bus[i].val = 0)
                           => /\ count < DRV2605L_MAX_WAVEFORM_SEQ
                              /\ i = count + 1
                              /\ bus[i].reg = DRV2605L_REG_WAVESEQ1 + count
                 /\ (drv'.ret = "OK" /\ count >= DRV2605L_MAX_WAVEFORM_SEQ)
                      => Len(bus) = DRV2605L_MAX_WAVEFORM_SEQ + 1
                 /\ \A a \in Regs \ (SlotRegs \cup {DRV2605L_REG_GO}) :
                      regs'[a] = regs[a]]_vars

\* drv2605l_play_sequence with count 255 succeeded: eight slot writes, the
\* last to 0x0B, then the go write.
C40_Witness ==
  /\ drv.op = "play_sequence"
  /\ drv.args[2] = 255
  /\ drv.ret = "OK"
  /\ Len(drv.bus) = 9
  /\ drv.bus[8].reg = 11
  /\ drv.bus[9].reg = DRV2605L_REG_GO
  /\ regs[DRV2605L_REG_GO] = 1

=============================================================================
